---- MODULE Spec2Model ----
(***************************************************************************)
(* Cellular-automaton core of GenerativePlayground: the CellSpace index    *)
(* mapper (Cells.ts), the rules Rule110 and SandRule, and the CA driver    *)
(* (setNeighborhoodType, setRule, scuffCell, iterate, dirty tracking) and   *)
(* the page's event loop (tick timer, space key, paint, render frames).    *)
(* Arrays and Vectors are functions over 0..n-1, as in the source.         *)
(***************************************************************************)
EXTENDS Integers, FiniteSets, Sequences, TLC

\* ---------------------------------------------------------------- bounds
\* Largest number of cells of a grid of the driver specification.
MaxCells == 3
\* Largest number of cells of a grid of the event-loop specification.
MaxLoopCells == 2
\* Largest width of a Rule 110 grid and largest side of a sand grid of the
\* rules specification.
MaxRowWidth == 5
MaxSandSide == 3
\* Largest number of objects allocated in the objects specification.
MaxAllocated == 10
\* Largest number of axes and largest axis size of the mapper specification.
MaxDims == 3
MaxOrder == 3

\* ------------------------------------------------------- arrays, vectors
ArrLen(a) == Cardinality(DOMAIN a)

Vec1(a) == (0 :> a)
Vec2(a, b) == (0 :> a) @@ (1 :> b)
Vec3(a, b, c) == (0 :> a) @@ (1 :> b) @@ (2 :> c)

\* ----------------------------------------------------------- cell states
EMPTY == 0
SAND == 1
COMPACTED_SAND == 2
ROCK == 0 - 1
\* The JavaScript value undefined (an array read out of range, a switch
\* that matches no case); it is different from every number.
undefined == 0 - 9

Rule110AvailableStates == {0, 1}
SandAvailableStates == {EMPTY, SAND, COMPACTED_SAND, ROCK}
PaintStates == Rule110AvailableStates \cup SandAvailableStates

ELEMENTARY == "elementary"
MOORE == "moore"
NeighborhoodType == {ELEMENTARY, MOORE}

RULE110 == "Rule 110"
SANDRULE == "Sand Physics"
Rules == {RULE110, SANDRULE}

\* rule.neighborhoodType
RuleNeighborhoodType(rule) == IF rule = RULE110 THEN ELEMENTARY ELSE MOORE

\* ---------------------------------------------------------------- Cells.ts
RECURSIVE ProductBelow(_, _)
\* running product of dimensionOrders[0 .. k-1]
ProductBelow(dimensionOrders, k) ==
  IF k = 0 THEN 1 ELSE ProductBelow(dimensionOrders, k - 1) * dimensionOrders[k - 1]

\* ncells of the constructor
NCells(dimensionOrders) == ProductBelow(dimensionOrders, ArrLen(dimensionOrders))

\* this.indexOrders of the constructor
IndexOrders(dimensionOrders) ==
  [d \in DOMAIN dimensionOrders |-> ProductBelow(dimensionOrders, d)]

\* A constructor that stops after new Array(ncells).fill(new Cell(0)).
CreateCells_Fill(dimensionOrders, startingValues) ==
  [i \in 0 .. NCells(dimensionOrders) - 1 |-> 0]

\* CellSpace.createCellSpaceWithStartingValues + constructor: the states of
\* this.cells (cells[i] ?? new Cell(0))
CreateCells(dimensionOrders, startingValues) ==
  [i \in 0 .. NCells(dimensionOrders) - 1 |->
     IF i \in DOMAIN startingValues THEN startingValues[i] ELSE 0]

\* new DimensionError(msg): the class the object is an instance of after
\* Object.setPrototypeOf(this, DimensionError.prototype)
NewDimensionError == "DimensionError"

\* new IndexOutOfBoundsError(msg): the class the object is an instance of
\* after Object.setPrototypeOf(this, DimensionError.prototype)
NewIndexOutOfBoundsError == "DimensionError"

\* getIndex throws DimensionError
getIndexThrows(dimensionOrders, position) ==
  ArrLen(position) # ArrLen(dimensionOrders)

RECURSIVE getIndexLoop(_, _, _)
\* the for loop of getIndex: index += position[dim] * indexOrders[length-1-dim]
getIndexLoop(indexOrders, position, dim) ==
  IF dim = ArrLen(position) THEN 0
  ELSE position[dim] * indexOrders[ArrLen(position) - 1 - dim]
       + getIndexLoop(indexOrders, position, dim + 1)

RECURSIVE getIndexSameAxisLoop(_, _, _)
getIndexSameAxisLoop(indexOrders, position, dim) ==
  IF dim = ArrLen(position) THEN 0
  ELSE position[dim] * indexOrders[dim]
       + getIndexSameAxisLoop(indexOrders, position, dim + 1)

\* An index computation that pairs position[dim] with indexOrders[dim].
getIndexSameAxis(dimensionOrders, position) ==
  getIndexSameAxisLoop(IndexOrders(dimensionOrders), position, 0)

\* CellSpace.getIndex (when it does not throw)
getIndex(dimensionOrders, position) ==
  getIndexLoop(IndexOrders(dimensionOrders), position, 0)

\* The % of JavaScript: the remainder has the sign of the dividend.
JsRemainder(a, b) == IF a >= 0 THEN a % b ELSE 0 - ((0 - a) % b)

RECURSIVE getPositionLoop(_, _, _, _)
\* the for loop of getPosition, dim running from length-1 down to 0
getPositionLoop(indexOrders, dim, indexRemaining, position) ==
  IF dim < 0 THEN position
  ELSE getPositionLoop(indexOrders, dim - 1,
         JsRemainder(indexRemaining, indexOrders[dim]),
         [position EXCEPT ![ArrLen(position) - 1 - dim] =
                            indexRemaining \div indexOrders[dim]])

\* CellSpace.getPosition
getPosition(dimensionOrders, index) ==
  getPositionLoop(IndexOrders(dimensionOrders), ArrLen(dimensionOrders) - 1, index,
                  [d \in DOMAIN dimensionOrders |-> undefined])

\* A validity test that compares position[dim] with dimensionOrders[dim].
getPositionIsValid_SameAxis(dimensionOrders, position) ==
  /\ ArrLen(position) = ArrLen(dimensionOrders)
  /\ \A dim \in DOMAIN position :
       ~(position[dim] < 0 \/ position[dim] >= dimensionOrders[dim])

\* CellSpace.getPositionIsValid
getPositionIsValid(dimensionOrders, position) ==
  /\ ArrLen(position) = ArrLen(dimensionOrders)
  /\ \A dim \in DOMAIN position :
       ~(position[dim] < 0
         \/ position[dim] >= dimensionOrders[ArrLen(position) - 1 - dim])

\* getCellAtIndex throws IndexOutOfBoundsError
getCellAtIndexThrows(cells, index) == index < 0 \/ index >= ArrLen(cells)

\* CellSpace.getCellAtIndex(index).state (when it does not throw)
getCellAtIndex(cells, index) == cells[index]

\* ------------------------------------------------- JavaScript bit operators
\* ToInt32 of a cell state (undefined converts to 0)
ToInt32(x) == IF x = undefined THEN 0 ELSE x

RECURSIVE OrBits(_, _)
\* a | b for a, b >= 0
OrBits(a, b) ==
  IF a = 0 /\ b = 0 THEN 0
  ELSE (IF a % 2 = 1 \/ b % 2 = 1 THEN 1 ELSE 0) + 2 * OrBits(a \div 2, b \div 2)

RECURSIVE AndBits(_, _)
\* a & b for a, b >= 0
AndBits(a, b) ==
  IF a = 0 \/ b = 0 THEN 0
  ELSE (IF a % 2 = 1 /\ b % 2 = 1 THEN 1 ELSE 0) + 2 * AndBits(a \div 2, b \div 2)

RECURSIVE AndNotBits(_, _)
\* a & ~b for a, b >= 0
AndNotBits(a, b) ==
  IF a = 0 THEN 0
  ELSE (IF a % 2 = 1 /\ b % 2 = 0 THEN 1 ELSE 0) + 2 * AndNotBits(a \div 2, b \div 2)

\* ~x in two's complement
BitNot(x) == 0 - x - 1

\* a | b on 32-bit two's complement integers: a | b = ~(~a & ~b)
BitOr(a, b) ==
  IF a >= 0 /\ b >= 0 THEN OrBits(a, b)
  ELSE IF a < 0 /\ b < 0 THEN BitNot(AndBits(BitNot(a), BitNot(b)))
  ELSE IF a < 0 THEN BitNot(AndNotBits(BitNot(a), b))
  ELSE BitNot(AndNotBits(BitNot(b), a))

\* x << k for the small operands of Rule110.apply
ShiftLeft(x, k) == ToInt32(x) * (2 ^ k)

\* ------------------------------------------------------------- Rule110.ts
\* lut of Rule110.apply, read at any index (out of range reads undefined)
lut(pattern) ==
  IF pattern \in 0 .. 7 THEN <<0, 1, 1, 1, 0, 1, 1, 0>>[pattern + 1] ELSE undefined

\* A neighbor lookup that reads the cell itself beyond the edge of the row.
Rule110GetNeighbor_Self(dimensionOrders, cells, position, offset) ==
  LET nx == position[1] + offset
  IN IF nx < 0 \/ nx >= dimensionOrders[0]
     THEN cells[getIndex(dimensionOrders, position)]
     ELSE cells[getIndex(dimensionOrders, Vec2(position[0], nx))]

\* Rule110.getNeighbor(cellSpace, position, offset).state
Rule110GetNeighbor(dimensionOrders, cells, position, offset) ==
  LET nx == position[1] + offset
  IN IF nx < 0 \/ nx >= dimensionOrders[0] THEN 0
     ELSE getCellAtIndex(cells, getIndex(dimensionOrders, Vec2(position[0], nx)))

\* Rule110.apply
Rule110Apply(dimensionOrders, cells, position) ==
  LET left == Rule110GetNeighbor(dimensionOrders, cells, position, 0 - 1)
      center == Rule110GetNeighbor(dimensionOrders, cells, position, 0)
      right == Rule110GetNeighbor(dimensionOrders, cells, position, 1)
      pattern == BitOr(BitOr(ShiftLeft(left, 2), ShiftLeft(center, 1)), ToInt32(right))
  IN lut(pattern)

\* ------------------------------------------------------------ SandRule.ts
\* A neighbor lookup that adds dx to the row and dy to the column.
SandGetNeighbor_Swapped(dimensionOrders, cells, position, dy, dx) ==
  LET ny == position[0] + dx
      nx == position[1] + dy
  IN IF nx < 0 \/ nx >= dimensionOrders[0] \/ ny < 0 \/ ny >= dimensionOrders[1]
     THEN ROCK
     ELSE cells[getIndex(dimensionOrders, Vec2(ny, nx))]

\* A neighbor lookup that reads EMPTY beyond the edge of the grid.
SandGetNeighbor_Open(dimensionOrders, cells, position, dy, dx) ==
  LET ny == position[0] + dy
      nx == position[1] + dx
  IN IF nx < 0 \/ nx >= dimensionOrders[0] \/ ny < 0 \/ ny >= dimensionOrders[1]
     THEN EMPTY
     ELSE cells[getIndex(dimensionOrders, Vec2(ny, nx))]

\* SandRule.getNeighbor(cellSpace, position, dy, dx).state
SandGetNeighbor(dimensionOrders, cells, position, dy, dx) ==
  LET ny == position[0] + dy
      nx == position[1] + dx
  IN IF nx < 0 \/ nx >= dimensionOrders[0] \/ ny < 0 \/ ny >= dimensionOrders[1]
     THEN ROCK
     ELSE getCellAtIndex(cells, getIndex(dimensionOrders, Vec2(ny, nx)))

\* JavaScript truthiness of a cell state
Truthy(x) == x # 0 /\ x # undefined

\* SandRule.apply
SandApply(dimensionOrders, cells, position) ==
  LET self == SandGetNeighbor(dimensionOrders, cells, position, 0, 0)
      up == SandGetNeighbor(dimensionOrders, cells, position, 0 - 1, 0)
      upLeft == SandGetNeighbor(dimensionOrders, cells, position, 0 - 1, 0 - 1)
      upRight == SandGetNeighbor(dimensionOrders, cells, position, 0 - 1, 1)
      left == SandGetNeighbor(dimensionOrders, cells, position, 0, 0 - 1)
      right == SandGetNeighbor(dimensionOrders, cells, position, 0, 1)
      down == SandGetNeighbor(dimensionOrders, cells, position, 1, 0)
      downLeft == SandGetNeighbor(dimensionOrders, cells, position, 1, 0 - 1)
      downRight == SandGetNeighbor(dimensionOrders, cells, position, 1, 1)
  IN CASE self = EMPTY ->
            IF up = SAND THEN SAND
            ELSE IF upRight = SAND /\ right # EMPTY /\ up = EMPTY THEN SAND
            ELSE IF left = COMPACTED_SAND /\ upLeft = SAND /\ downLeft # EMPTY THEN SAND
            ELSE EMPTY
       [] self = SAND ->
            IF down = EMPTY THEN EMPTY
            ELSE IF downLeft = EMPTY /\ left = EMPTY THEN EMPTY
            ELSE IF Truthy(down) /\ (up = SAND \/ up = COMPACTED_SAND) THEN COMPACTED_SAND
            ELSE IF down = COMPACTED_SAND /\ right = EMPTY /\ downRight = EMPTY THEN EMPTY
            ELSE SAND
       [] self = COMPACTED_SAND ->
            IF down = EMPTY THEN SAND
            ELSE IF down = SAND THEN SAND
            ELSE IF up = EMPTY \/ up = ROCK THEN SAND
            ELSE COMPACTED_SAND
       [] self = ROCK -> ROCK
       [] OTHER -> undefined

\* currentRule.apply(cellSpace, position)
RuleApply(rule, dimensionOrders, cells, position) ==
  IF rule = RULE110 THEN Rule110Apply(dimensionOrders, cells, position)
  ELSE SandApply(dimensionOrders, cells, position)

\* ------------------------------------------------------------- CA (driver)
\* CA.getNextState(index)
getNextState(rule, dimensionOrders, cells, index) ==
  RuleApply(rule, dimensionOrders, cells, getPosition(dimensionOrders, index))

RECURSIVE IterateInPlaceLoop(_, _, _, _)
IterateInPlaceLoop(rule, dimensionOrders, cells, i) ==
  IF i = ArrLen(cells) THEN cells
  ELSE IterateInPlaceLoop(rule, dimensionOrders,
         [cells EXCEPT ![i] = getNextState(rule, dimensionOrders, cells, i)], i + 1)

\* A single-pass update that writes each new state into the grid before the
\* next cell is evaluated.
IterateComputeInPlace(rule, dimensionOrders, cells) ==
  IterateInPlaceLoop(rule, dimensionOrders, cells, 0)

RECURSIVE IterateComputeLoop(_, _, _, _, _)
\* CA.iterate, first loop: nextStateBuffer[i] = this.getNextState(i); every
\* read goes to this.cellSpace.cells, which this loop does not write
IterateComputeLoop(rule, dimensionOrders, cells, nextStateBuffer, i) ==
  IF i = ArrLen(cells) THEN nextStateBuffer
  ELSE IterateComputeLoop(rule, dimensionOrders, cells,
         [nextStateBuffer EXCEPT ![i] = getNextState(rule, dimensionOrders, cells, i)],
         i + 1)

\* CA.iterate, first loop, from an empty buffer of cells.length slots
IterateCompute(rule, dimensionOrders, cells) ==
  IterateComputeLoop(rule, dimensionOrders, cells,
                     [i \in DOMAIN cells |-> undefined], 0)

RECURSIVE IterateWriteLoop(_, _, _)
\* CA.iterate, second loop: a cell whose state differs from nextStateBuffer[i]
\* is replaced by new Cell(nextStateBuffer[i]) and its index marked dirty
IterateWriteLoop(grid, nextStateBuffer, i) ==
  IF i = ArrLen(grid.cells) THEN grid
  ELSE IterateWriteLoop(
         IF grid.cells[i] # nextStateBuffer[i]
         THEN [cells |-> [grid.cells EXCEPT ![i] = nextStateBuffer[i]],
               dirtyRects |-> grid.dirtyRects \cup {i}]
         ELSE grid,
         nextStateBuffer, i + 1)

\* A second loop that replaces the cells but marks nothing dirty.
IterateWrite_NoMark(cells, dirty, nextStateBuffer) ==
  [cells |-> nextStateBuffer, dirtyRects |-> dirty]

\* A second loop that starts from an emptied dirty set.
IterateWrite_Reset(cells, dirty, nextStateBuffer) ==
  IterateWriteLoop([cells |-> cells, dirtyRects |-> {}], nextStateBuffer, 0)

\* CA.iterate, second loop: cells and dirtyRects afterwards
IterateWrite(cells, dirty, nextStateBuffer) ==
  IterateWriteLoop([cells |-> cells, dirtyRects |-> dirty], nextStateBuffer, 0)

\* ------------------------------------------------------------------ state
VARIABLES
  dimensionOrders,          \* cellSpace.dimensionOrders  ([width, height])
  cells,                    \* cellSpace.cells[i].state, i in 0 .. ncells-1
  currentRule,              \* CA.currentRule
  currentNeighborhoodType,  \* CA.currentNeighborhoodType
  dirtyRects,               \* CA.dirtyRects
  op,                       \* the method called last
  consoleLevel,             \* console level the last call wrote: log, warn, error
  thrown,                   \* the class the error thrown by the last call is an
                            \* instance of, "none" if the call returned
  position,                 \* mapper calls: the position passed or returned
  index,                    \* mapper calls: the index passed or returned
  ret,                      \* the value the last call returned: a state, an
                            \* array of cells, the text of an exported state
  cellObjects,              \* object identities: the Cell object held by cells[i]
  stateBuffers,             \* object identities: the arrays behind the buffers
  allocated,                \* object identities: objects allocated so far
  pc,                       \* event loop: where the running callback stands
  loopIndex,                \* event loop: i of the running loop of iterate
  currentStateBuffer,       \* event loop: CA.currentStateBuffer during iterate
  nextStateBuffer,          \* event loop: CA.nextStateBuffer during iterate
  STOP,                     \* the module variable STOP
  tickLoopIntervalId,       \* the module variable tickLoopIntervalId
  TICKRATE,                 \* the module variable TICKRATE
  intervals,                \* the ids of the intervals set and not cleared
  clearedCells              \* dirty tracking: the state every cell had at the
                            \* last clearDirty or at construction

driverVars == <<dimensionOrders, cells, currentRule, currentNeighborhoodType,
                dirtyRects, op, consoleLevel, thrown>>
mapperVars == <<position, index, ret>>
heapVars == <<cellObjects, stateBuffers, allocated>>
loopVars == <<pc, loopIndex, currentStateBuffer, nextStateBuffer, STOP,
              tickLoopIntervalId>>
pageVars == <<clearedCells, TICKRATE, intervals>>
vars == <<driverVars, mapperVars, loopVars, heapVars, pageVars>>

\* The values the variables of the other specifications keep in this one.
NoMapperCall == position = <<>> /\ index = undefined /\ ret = undefined
NoObjects == cellObjects = <<>> /\ stateBuffers = <<>> /\ allocated = 0
NoCallback ==
  /\ pc = "idle"
  /\ loopIndex = 0
  /\ currentStateBuffer = <<>>
  /\ nextStateBuffer = <<>>
  /\ STOP = TRUE
  /\ tickLoopIntervalId = "null"
\* The page when its module is loaded: var TICKRATE = 60, no interval set.
PageStart == clearedCells = <<>> /\ TICKRATE = 60 /\ intervals = {}

\* The grids of the driver specification: [width, height], every size >= 1.
Shapes ==
  {d \in [0 .. 1 -> 1 .. MaxCells] : d[0] * d[1] <= MaxCells}

\* initialConfig: at most one value more than the grid has cells
StartingValues(dims) ==
  UNION {[0 .. k - 1 -> PaintStates] : k \in 0 .. NCells(dims) + 1}

\* Positions handed to scuffCell: every valid position (row, col), the same
\* coordinates swapped, one position beyond each edge of the grid, and vectors
\* of the wrong dimensionality.
PaintPositions(dims) ==
  LET valid == {Vec2(r, c) : r \in 0 .. dims[1] - 1, c \in 0 .. dims[0] - 1}
  IN valid \cup {Vec2(p[1], p[0]) : p \in valid}
       \cup {Vec2(0 - 1, 0), Vec2(0, 0 - 1), Vec2(dims[1], 0), Vec2(0, dims[0])}
       \cup {Vec1(0), Vec3(0, 0, 0)}

\* new CA(..., neighborhoodType?, rule?): an omitted argument is "omitted"
CAConstructor(dims, startingValues, neighborhoodType, rule) ==
  /\ dimensionOrders = dims
  /\ cells = CreateCells(dims, startingValues)
  /\ currentNeighborhoodType =
       (IF neighborhoodType = "omitted" THEN MOORE ELSE neighborhoodType)
  /\ currentRule = (IF rule = "omitted" THEN SANDRULE ELSE rule)
  /\ dirtyRects = {}
  /\ op = "constructor"
  /\ consoleLevel = "log"
  /\ thrown = "none"

Init ==
  /\ \E dims \in Shapes :
       \E startingValues \in StartingValues(dims) :
         \E neighborhoodType \in NeighborhoodType \cup {"omitted"} :
           \E rule \in Rules \cup {"omitted"} :
             CAConstructor(dims, startingValues, neighborhoodType, rule)
  /\ NoMapperCall
  /\ NoObjects
  /\ NoCallback
  /\ PageStart

\* CA.setNeighborhoodType
setNeighborhoodType(type) ==
  /\ currentNeighborhoodType' = type
  /\ op' = "setNeighborhoodType"
  /\ consoleLevel' = "none"
  /\ thrown' = "none"
  /\ UNCHANGED <<dimensionOrders, cells, currentRule, dirtyRects>>

\* A test that lets every rule through.
setRuleAccepts_Always(rule, type) == TRUE

\* CA.setRule: the test rule.neighborhoodType === this.currentNeighborhoodType
setRuleAccepts(rule, type) == RuleNeighborhoodType(rule) = type

\* CA.setRule
setRule(rule) ==
  /\ IF setRuleAccepts(rule, currentNeighborhoodType)
     THEN /\ currentRule' = rule
          /\ consoleLevel' = "none"
     ELSE /\ currentRule' = currentRule
          /\ consoleLevel' = "error"
  /\ op' = "setRule"
  /\ thrown' = "none"
  /\ UNCHANGED <<dimensionOrders, cells, currentNeighborhoodType, dirtyRects>>

\* A markDirty that records nothing.
markDirty_Drop(dirty, i) == dirty

\* CA.markDirty
markDirty(dirty, i) == dirty \cup {i}

\* CA.scuffCell(pos, state) in the current state: the cells and the dirty set
\* it leaves, what it logs and what it throws. Reading cells[index].state at
\* an index that holds no cell throws a TypeError.
scuffCellResult(pos, state) ==
  IF ~getPositionIsValid(dimensionOrders, pos)
  THEN [cells |-> cells, dirtyRects |-> dirtyRects,
        consoleLevel |-> "warn", thrown |-> "none"]
  ELSE LET idx == getIndex(dimensionOrders, pos)
       IN IF idx \notin DOMAIN cells
          THEN [cells |-> cells, dirtyRects |-> dirtyRects,
                consoleLevel |-> "none", thrown |-> "TypeError"]
          ELSE IF cells[idx] # state
          THEN [cells |-> [cells EXCEPT ![idx] = state],
                dirtyRects |-> markDirty(dirtyRects, idx),
                consoleLevel |-> "log", thrown |-> "none"]
          ELSE [cells |-> cells, dirtyRects |-> dirtyRects,
                consoleLevel |-> "none", thrown |-> "none"]

\* CA.scuffCell
scuffCell(pos, state) ==
  LET result == scuffCellResult(pos, state)
  IN /\ cells' = result.cells
     /\ dirtyRects' = result.dirtyRects
     /\ consoleLevel' = result.consoleLevel
     /\ thrown' = result.thrown
     /\ op' = "scuffCell"
     /\ UNCHANGED <<dimensionOrders, currentRule, currentNeighborhoodType>>

\* CA.iterate in the current state, run from the first statement to the last:
\* the cells and the dirty set it leaves. The contents of the two state
\* buffers are not kept between calls: iterate overwrites both before it
\* reads them.
iterateResult ==
  IterateWrite(cells, dirtyRects,
               IterateCompute(currentRule, dimensionOrders, cells))

\* CA.iterate
iterate ==
  /\ cells' = iterateResult.cells
  /\ dirtyRects' = iterateResult.dirtyRects
  /\ op' = "iterate"
  /\ consoleLevel' = "none"
  /\ thrown' = "none"
  /\ UNCHANGED <<dimensionOrders, currentRule, currentNeighborhoodType>>

\* CA.clearDirty
clearDirty ==
  /\ dirtyRects' = {}
  /\ op' = "clearDirty"
  /\ consoleLevel' = "none"
  /\ thrown' = "none"
  /\ UNCHANGED <<dimensionOrders, cells, currentRule, currentNeighborhoodType>>

\* CA.getDirtyRects
getDirtyRects ==
  /\ op' = "getDirtyRects"
  /\ consoleLevel' = "none"
  /\ thrown' = "none"
  /\ UNCHANGED <<dimensionOrders, cells, currentRule, currentNeighborhoodType,
                 dirtyRects>>

\* ------------------------------------------------ the driver specification
\* Any sequence of calls of the CA's methods on a constructed CA.
CallSetNeighborhoodType ==
  /\ \E type \in NeighborhoodType : setNeighborhoodType(type)
  /\ UNCHANGED <<mapperVars, loopVars, heapVars>>
  /\ UNCHANGED pageVars

CallSetRule ==
  /\ \E rule \in Rules : setRule(rule)
  /\ UNCHANGED <<mapperVars, loopVars, heapVars>>
  /\ UNCHANGED pageVars

CallScuffCell ==
  /\ \E pos \in PaintPositions(dimensionOrders) :
       \E state \in PaintStates : scuffCell(pos, state)
  /\ UNCHANGED <<mapperVars, loopVars, heapVars>>
  /\ UNCHANGED pageVars

CallIterate == iterate /\ UNCHANGED <<mapperVars, loopVars, heapVars>>
  /\ UNCHANGED pageVars

CallClearDirty == clearDirty /\ UNCHANGED <<mapperVars, loopVars, heapVars>>
  /\ UNCHANGED pageVars

CallGetDirtyRects == getDirtyRects /\ UNCHANGED <<mapperVars, loopVars, heapVars>>
  /\ UNCHANGED pageVars

Next ==
  \/ CallSetNeighborhoodType
  \/ CallSetRule
  \/ CallScuffCell
  \/ CallIterate
  \/ CallClearDirty
  \/ CallGetDirtyRects

Spec == Init /\ [][Next]_vars

\* ------------------------------------------------- the rules specification
\* A CA constructed with a rule, the neighborhood type of that rule and a
\* grid filled with states of that rule, asked for the next state of a cell.

\* Rule 110 grids: one or two rows of up to MaxRowWidth cells
Rule110Shapes == [0 .. 0 -> 1 .. MaxRowWidth] \X {1, 2}

\* [width, height] of the grids of a rule
RuleShapes(rule) ==
  IF rule = RULE110
  THEN {Vec2(d[1][0], d[2]) : d \in Rule110Shapes}
  ELSE [0 .. 1 -> 1 .. MaxSandSide]

\* getAvailableStates of a rule
RuleAvailableStates(rule) ==
  IF rule = RULE110 THEN Rule110AvailableStates ELSE SandAvailableStates

\* new CA(width, height, bounds, rule.neighborhoodType, rule) on a grid that
\* holds any states of the rule
InitRules ==
  /\ \E rule \in Rules :
       \E dims \in RuleShapes(rule) :
         \E startingValues \in [0 .. NCells(dims) - 1 -> RuleAvailableStates(rule)] :
           CAConstructor(dims, startingValues, RuleNeighborhoodType(rule), rule)
  /\ NoMapperCall
  /\ NoObjects
  /\ NoCallback
  /\ PageStart

\* ca.getNextState(index), called once on the constructed CA
CallGetNextState ==
  /\ op = "constructor"
  /\ \E i \in DOMAIN cells :
       /\ index' = i
       /\ position' = getPosition(dimensionOrders, i)
       /\ ret' = getNextState(currentRule, dimensionOrders, cells, i)
  /\ op' = "getNextState"
  /\ consoleLevel' = "none"
  /\ thrown' = "none"
  /\ UNCHANGED <<dimensionOrders, cells, currentRule, currentNeighborhoodType,
                 dirtyRects, loopVars, heapVars>>
  /\ UNCHANGED pageVars

NextRules == CallGetNextState

SpecRules == InitRules /\ [][NextRules]_vars

\* ------------------------------------------------ the mapper specification
\* getIndex and getPosition of a CellSpace of any dimensionality, applied to
\* an argument drawn at the start and then to each other's results as long as
\* these stay within the arguments drawn.

\* dimensionOrders of 1 .. MaxDims axes, every size in 1 .. MaxOrder
MapperShapes ==
  UNION {[0 .. n - 1 -> 1 .. MaxOrder] : n \in 1 .. MaxDims}

\* Positions handed to getIndex: every vector of the grid's dimensionality
\* with coordinates from -1 to MaxOrder, and vectors of another length.
MapperPositions(dims) ==
  [DOMAIN dims -> (0 - 1) .. MaxOrder]
    \cup {[d \in 0 .. ArrLen(dims) |-> 0], [d \in 1 .. ArrLen(dims) - 1 |-> 0]}

\* Indices handed to getPosition: every index of the cells, one below, one above.
MapperIndices(dims) == (0 - 1) .. NCells(dims)

\* new CellSpace(dims, []) and the argument of the first call
InitMapper ==
  /\ \E dims \in MapperShapes :
       /\ dimensionOrders = dims
       /\ cells = CreateCells(dims, <<>>)
       /\ \/ \E p \in MapperPositions(dims) : position = p /\ index = undefined
          \/ \E i \in MapperIndices(dims) : position = <<>> /\ index = i
  /\ currentNeighborhoodType = MOORE
  /\ currentRule = SANDRULE
  /\ dirtyRects = {}
  /\ op = "constructor"
  /\ consoleLevel = "log"
  /\ thrown = "none"
  /\ ret = undefined
  /\ NoObjects
  /\ NoCallback
  /\ PageStart

\* cellSpace.getIndex(position)
CallGetIndex ==
  /\ position \in MapperPositions(dimensionOrders)
  /\ op # "getIndex"
  /\ op' = "getIndex"
  /\ IF getIndexThrows(dimensionOrders, position)
     THEN thrown' = NewDimensionError /\ index' = undefined
     ELSE thrown' = "none" /\ index' = getIndex(dimensionOrders, position)
  /\ UNCHANGED <<dimensionOrders, cells, currentRule, currentNeighborhoodType,
                 dirtyRects, consoleLevel, position, ret, loopVars,
                 heapVars>>
  /\ UNCHANGED pageVars

\* cellSpace.getPosition(index)
CallGetPosition ==
  /\ index \in MapperIndices(dimensionOrders)
  /\ op # "getPosition"
  /\ op' = "getPosition"
  /\ thrown' = "none"
  /\ position' = getPosition(dimensionOrders, index)
  /\ UNCHANGED <<dimensionOrders, cells, currentRule, currentNeighborhoodType,
                 dirtyRects, consoleLevel, index, ret, loopVars,
                 heapVars>>
  /\ UNCHANGED pageVars

\* cellSpace.getCellAtIndex(index).state
CallGetCellAtIndex ==
  /\ index \in MapperIndices(dimensionOrders)
  /\ op # "getCellAtIndex"
  /\ op' = "getCellAtIndex"
  /\ IF getCellAtIndexThrows(cells, index)
     THEN thrown' = NewIndexOutOfBoundsError /\ ret' = undefined
     ELSE thrown' = "none" /\ ret' = getCellAtIndex(cells, index)
  /\ UNCHANGED <<dimensionOrders, cells, currentRule, currentNeighborhoodType,
                 dirtyRects, consoleLevel, position, index, loopVars,
                 heapVars>>
  /\ UNCHANGED pageVars

NextMapper == CallGetIndex \/ CallGetPosition \/ CallGetCellAtIndex

SpecMapper == InitMapper /\ [][NextMapper]_vars

\* -------------------------------------------- the event-loop specification
\* The page after entry(): the browser's event loop runs the interval timer's
\* tickAction, the space key's tickAction, pointer paints, render frames and
\* the play/pause button as tasks, and CA.iterate advances one statement of
\* its loops at a time.

\* A clearInterval that leaves the interval running.
clearInterval_Keep(live, id) == live

\* clearInterval(id): the intervals that are live afterwards
clearInterval(live, id) == live \ {id}

\* setInterval(tickAction, ts): the id of the new interval, different from
\* the id of every interval that is live
setInterval(live) ==
  IF "interval" \notin live THEN "interval"
  ELSE IF "interval2" \notin live THEN "interval2"
  ELSE "interval3"

\* A task that never waits for the call stack to empty.
CallStackEmpty_Always(at) == TRUE

\* The event loop starts a task only when the running callback has returned:
\* tickAction, renderFrame, paintCell and toggleTickLoop are synchronous
\* functions that contain no await and no yield. at is the pc of the loop.
CallStackEmpty(at) == at = "idle"

\* The grids of the event-loop specification
LoopShapes == {d \in Shapes : d[0] * d[1] <= MaxLoopCells}

\* entry(): new CA(width, height, bounds, undefined, undefined, canvas)
InitLoop ==
  /\ \E dims \in LoopShapes :
       /\ \E startingValues \in StartingValues(dims) :
            CAConstructor(dims, startingValues, "omitted", "omitted")
       /\ currentStateBuffer = [i \in 0 .. NCells(dims) - 1 |-> undefined]
       /\ nextStateBuffer = [i \in 0 .. NCells(dims) - 1 |-> undefined]
  /\ pc = "idle"
  /\ loopIndex = 0
  /\ STOP = TRUE
  /\ tickLoopIntervalId = "null"
  /\ NoMapperCall
  /\ NoObjects
  /\ PageStart

\* iterate, first statement: this.currentStateBuffer = cells.map(c => c.state)
IterateBegin ==
  /\ currentStateBuffer' = cells
  /\ pc' = "compute"
  /\ loopIndex' = 0
  /\ op' = "iterate"
  /\ consoleLevel' = "none"
  /\ thrown' = "none"
  /\ UNCHANGED <<dimensionOrders, cells, currentRule, currentNeighborhoodType,
                 dirtyRects, nextStateBuffer, STOP, tickLoopIntervalId,
                 mapperVars, heapVars>>
  /\ UNCHANGED pageVars

\* setInterval(tickAction, ts) fires: tickAction calls ca.iterate()
IntervalTick ==
  /\ CallStackEmpty(pc)
  /\ intervals # {}
  /\ IterateBegin

\* keypressEvent with key " ": tickAction calls ca.iterate()
KeypressSpace ==
  /\ CallStackEmpty(pc)
  /\ IterateBegin

\* iterate, first loop: this.nextStateBuffer[i] = this.getNextState(i)
IterateComputeStep ==
  /\ pc = "compute"
  /\ IF loopIndex < ArrLen(cells)
     THEN /\ nextStateBuffer' =
               [nextStateBuffer EXCEPT ![loopIndex] =
                  getNextState(currentRule, dimensionOrders, cells, loopIndex)]
          /\ loopIndex' = loopIndex + 1
          /\ pc' = pc
     ELSE /\ pc' = "write"
          /\ loopIndex' = 0
          /\ nextStateBuffer' = nextStateBuffer
  /\ UNCHANGED <<driverVars, currentStateBuffer, STOP, tickLoopIntervalId,
                 mapperVars, heapVars>>
  /\ UNCHANGED pageVars

\* iterate, second loop: a cell whose state differs from nextStateBuffer[i]
\* is replaced and marked dirty
IterateWriteStep ==
  /\ pc = "write"
  /\ IF loopIndex < ArrLen(cells)
     THEN /\ IF cells[loopIndex] # nextStateBuffer[loopIndex]
             THEN /\ cells' = [cells EXCEPT ![loopIndex] =
                                 nextStateBuffer[loopIndex]]
                  /\ dirtyRects' = markDirty(dirtyRects, loopIndex)
             ELSE UNCHANGED <<cells, dirtyRects>>
          /\ loopIndex' = loopIndex + 1
          /\ pc' = pc
     ELSE /\ pc' = "swap"
          /\ loopIndex' = 0
          /\ UNCHANGED <<cells, dirtyRects>>
  /\ UNCHANGED <<dimensionOrders, currentRule, currentNeighborhoodType, op,
                 consoleLevel, thrown, currentStateBuffer, nextStateBuffer,
                 STOP, tickLoopIntervalId, mapperVars,
                 heapVars>>
  /\ UNCHANGED pageVars

\* iterate, last statements: the two buffers change roles, iterate and
\* tickAction return
IterateSwap ==
  /\ pc = "swap"
  /\ currentStateBuffer' = nextStateBuffer
  /\ nextStateBuffer' = currentStateBuffer
  /\ pc' = "idle"
  /\ UNCHANGED <<driverVars, loopIndex, STOP, tickLoopIntervalId, mapperVars,
                 heapVars>>
  /\ UNCHANGED pageVars

\* a pointer event: paintCell(position, state) calls ca.scuffCell
PointerPaint ==
  /\ CallStackEmpty(pc)
  /\ \E pos \in PaintPositions(dimensionOrders) :
       \E state \in SandAvailableStates : scuffCell(pos, state)
  /\ UNCHANGED <<mapperVars, loopVars, heapVars>>
  /\ UNCHANGED pageVars

\* renderFrame: with STOP or without, a non-empty dirty set is redrawn and
\* cleared
RenderFrame ==
  /\ CallStackEmpty(pc)
  /\ dirtyRects' = (IF Cardinality(dirtyRects) > 0 THEN {} ELSE dirtyRects)
  /\ op' = "renderFrame"
  /\ consoleLevel' = "none"
  /\ thrown' = "none"
  /\ UNCHANGED <<dimensionOrders, cells, currentRule, currentNeighborhoodType,
                 mapperVars, loopVars, heapVars>>
  /\ UNCHANGED pageVars

\* toggleTickLoop
ToggleTickLoop ==
  /\ CallStackEmpty(pc)
  /\ STOP' = ~STOP
  /\ IF STOP' /\ tickLoopIntervalId # "null"
     THEN /\ intervals' = clearInterval(intervals, tickLoopIntervalId)
          /\ tickLoopIntervalId' = "null"
     ELSE IF ~STOP' /\ TICKRATE # 0
     THEN /\ tickLoopIntervalId' = setInterval(intervals)
          /\ intervals' = intervals \cup {setInterval(intervals)}
     ELSE UNCHANGED <<tickLoopIntervalId, intervals>>
  /\ op' = "toggleTickLoop"
  /\ consoleLevel' = "log"
  /\ thrown' = "none"
  /\ UNCHANGED <<dimensionOrders, cells, currentRule, currentNeighborhoodType,
                 dirtyRects, pc, loopIndex, currentStateBuffer,
                 nextStateBuffer, mapperVars, heapVars, clearedCells, TICKRATE>>

NextLoop ==
  \/ IntervalTick
  \/ KeypressSpace
  \/ IterateComputeStep
  \/ IterateWriteStep
  \/ IterateSwap
  \/ PointerPaint
  \/ RenderFrame
  \/ ToggleTickLoop

SpecLoop == InitLoop /\ [][NextLoop]_vars

\* ----------------------------------------------- the objects specification
\* The CA with the identities of its objects: objects are numbered in the
\* order of their allocation; cellObjects[i] is the Cell held by cells[i],
\* stateBuffers names the arrays behind stateBuffer1, stateBuffer2,
\* currentStateBuffer and nextStateBuffer.

\* A constructor that keeps the one Cell of fill(new Cell(0)) in every slot.
ConstructorCellObjects_Fill(dims, startingValues) ==
  [i \in 0 .. NCells(dims) - 1 |-> ArrLen(startingValues) + 1]

\* createCellSpaceWithStartingValues + constructor: startingValues.map
\* allocates one Cell per value, fill(new Cell(0)) one more, and the last
\* loop one for every slot that has no value (cells[i] ?? new Cell(0)).
ConstructorCellObjects(dims, startingValues) ==
  [i \in 0 .. NCells(dims) - 1 |->
     IF i < ArrLen(startingValues) THEN i + 1
     ELSE ArrLen(startingValues) + 1 + (i - ArrLen(startingValues) + 1)]

\* The number of Cells the constructor allocates.
ConstructorCellCount(dims, startingValues) ==
  ArrLen(startingValues) + 1
    + (IF NCells(dims) > ArrLen(startingValues)
       THEN NCells(dims) - ArrLen(startingValues) ELSE 0)

\* entry(): new CA(...) with the default rule; the two state buffers are
\* allocated after the cells
InitObjects ==
  /\ \E dims \in Shapes :
       \E startingValues \in StartingValues(dims) :
         /\ CAConstructor(dims, startingValues, "omitted", "omitted")
         /\ cellObjects = ConstructorCellObjects(dims, startingValues)
         /\ LET n == ConstructorCellCount(dims, startingValues)
            IN /\ stateBuffers = [stateBuffer1 |-> n + 1, stateBuffer2 |-> n + 2,
                                  currentStateBuffer |-> n + 1,
                                  nextStateBuffer |-> n + 2]
               /\ allocated = n + 2
  /\ NoMapperCall
  /\ NoCallback
  /\ PageStart

\* iterate, first statement: cells.map(...) allocates the array that becomes
\* the current buffer
IterateSnapshotBuffer(buffers, count) == count + 1

\* ca.iterate(): the clearedCells array, a new Cell for every changed cell in
\* the order of the indices, and the swap of the two buffers
ObjectsIterate ==
  /\ allocated + 1 + Cardinality({i \in DOMAIN cells : iterateResult.cells[i] # cells[i]})
       <= MaxAllocated
  /\ iterate
  /\ LET changed == {i \in DOMAIN cells : iterateResult.cells[i] # cells[i]}
         snapshot == IterateSnapshotBuffer(stateBuffers, allocated)
         used == IF snapshot > allocated THEN snapshot ELSE allocated
     IN /\ cellObjects' =
             [i \in DOMAIN cells |->
                IF i \in changed
                THEN used + Cardinality({j \in changed : j <= i})
                ELSE cellObjects[i]]
        /\ stateBuffers' =
             [stateBuffers EXCEPT !.currentStateBuffer = stateBuffers.nextStateBuffer,
                                  !.nextStateBuffer = snapshot]
        /\ allocated' = used + Cardinality(changed)
  /\ UNCHANGED <<mapperVars, loopVars>>
  /\ UNCHANGED pageVars

\* ca.scuffCell(position, state): a new Cell when the state differs
ObjectsScuffCell ==
  /\ allocated + 1 <= MaxAllocated
  /\ \E pos \in PaintPositions(dimensionOrders) :
       \E state \in SandAvailableStates :
         /\ scuffCell(pos, state)
         /\ IF scuffCellResult(pos, state).cells # cells
            THEN /\ cellObjects' =
                      [cellObjects EXCEPT
                         ![getIndex(dimensionOrders, pos)] = allocated + 1]
                 /\ allocated' = allocated + 1
            ELSE UNCHANGED <<cellObjects, allocated>>
  /\ UNCHANGED <<stateBuffers, mapperVars, loopVars>>
  /\ UNCHANGED pageVars

NextObjects == ObjectsIterate \/ ObjectsScuffCell

SpecObjects == InitObjects /\ [][NextObjects]_vars

\* ------------------------------------------------ the switch specification
\* The page with its two selectors: the rule and the neighbourhood type are
\* switched between steps and paints of the CA of entry().

\* ruleRegistry: the rules of a neighbourhood type by key
getRulesForNeighborhood(type) ==
  IF type = ELEMENTARY THEN [k \in {"rule110"} |-> RULE110]
  ELSE IF type = MOORE THEN [k \in {"sand"} |-> SANDRULE]
  ELSE <<>>

\* The strings the selectors and the presets hand to the two switches
NeighborhoodKeys == NeighborhoodType \cup {"hexagonal"}
RuleKeys == {"rule110", "sand", "life"}

\* entry(): new CA(width, height, bounds, undefined, undefined, canvas)
InitSwitch ==
  /\ \E dims \in LoopShapes :
       \E startingValues \in StartingValues(dims) :
         /\ CAConstructor(dims, startingValues, "omitted", "omitted")
         /\ cellObjects = ConstructorCellObjects(dims, startingValues)
         /\ LET n == ConstructorCellCount(dims, startingValues)
            IN /\ stateBuffers = [stateBuffer1 |-> n + 1, stateBuffer2 |-> n + 2,
                                  currentStateBuffer |-> n + 1,
                                  nextStateBuffer |-> n + 2]
               /\ allocated = n + 2
  /\ NoMapperCall
  /\ NoCallback
  /\ PageStart

\* switchNeighborhoodType(neighborhoodType) called with the CA at (type,
\* rule): the neighbourhood type and the rule it leaves. A known type is set
\* and ca.setRule is called with the first rule of its registry.
AfterSwitchNeighborhoodType(type, rule, neighborhoodType) ==
  IF neighborhoodType \in NeighborhoodType
  THEN LET rulesForNeighborhood == getRulesForNeighborhood(neighborhoodType)
           firstRuleKey == CHOOSE k \in DOMAIN rulesForNeighborhood : TRUE
       IN [currentNeighborhoodType |-> neighborhoodType,
           currentRule |->
             IF setRuleAccepts(rulesForNeighborhood[firstRuleKey],
                               neighborhoodType)
             THEN rulesForNeighborhood[firstRuleKey] ELSE rule]
  ELSE [currentNeighborhoodType |-> type, currentRule |-> rule]

\* A switchRule that looks the key up among the rules of every type.
AfterSwitchRule_AnyRegistry(type, rule, ruleKey) ==
  IF ruleKey = "rule110" THEN RULE110
  ELSE IF ruleKey = "sand" THEN SANDRULE
  ELSE rule

\* switchRule(ruleKey) called with the CA at (type, rule): the rule it
\* leaves. ca.setRule is called with the rule of that key in the registry of
\* the current neighbourhood type, if there is one.
AfterSwitchRule(type, rule, ruleKey) ==
  LET rulesForNeighborhood == getRulesForNeighborhood(type)
  IN IF ruleKey \in DOMAIN rulesForNeighborhood
        /\ setRuleAccepts(rulesForNeighborhood[ruleKey], type)
     THEN rulesForNeighborhood[ruleKey]
     ELSE rule

\* switchNeighborhoodType(neighborhoodType)
switchNeighborhoodType(neighborhoodType) ==
  /\ LET after == AfterSwitchNeighborhoodType(currentNeighborhoodType,
                                              currentRule, neighborhoodType)
     IN /\ currentNeighborhoodType' = after.currentNeighborhoodType
        /\ currentRule' = after.currentRule
  /\ consoleLevel' =
       (IF neighborhoodType \in NeighborhoodType THEN "log" ELSE "error")
  /\ op' = "switchNeighborhoodType"
  /\ thrown' = "none"
  /\ UNCHANGED <<dimensionOrders, cells, dirtyRects>>

\* switchRule(ruleKey)
switchRule(ruleKey) ==
  /\ currentRule' = AfterSwitchRule(currentNeighborhoodType, currentRule, ruleKey)
  /\ consoleLevel' =
       (IF ruleKey \in DOMAIN getRulesForNeighborhood(currentNeighborhoodType)
        THEN "log" ELSE "error")
  /\ op' = "switchRule"
  /\ thrown' = "none"
  /\ UNCHANGED <<dimensionOrders, cells, currentNeighborhoodType, dirtyRects>>

\* the neighbourhood selector changes
SwitchNeighborhoodType ==
  /\ \E neighborhoodType \in NeighborhoodKeys :
       switchNeighborhoodType(neighborhoodType)
  /\ UNCHANGED <<mapperVars, loopVars, heapVars>>
  /\ UNCHANGED pageVars

\* the rule selector changes
SwitchRule ==
  /\ \E ruleKey \in RuleKeys : switchRule(ruleKey)
  /\ UNCHANGED <<mapperVars, loopVars, heapVars>>
  /\ UNCHANGED pageVars

NextSwitch ==
  SwitchNeighborhoodType \/ SwitchRule \/ ObjectsIterate \/ ObjectsScuffCell

SpecSwitch == InitSwitch /\ [][NextSwitch]_vars

\* ------------------------------------------------- the raise specification
\* iterate in its steps with a rule whose apply may raise. CARule.apply is
\* abstract and the CA constructor takes any CARule; an implementation reads
\* the grid through getIndex and getCellAtIndex, which throw. Rule110 and
\* SandRule guard every read and never raise.
ANYRULE == "CARule"

\* new CA(width, height, bounds, neighborhoodType, rule) with the default
\* rule or with a CARule of the kind above
InitRaise ==
  /\ \E dims \in LoopShapes :
       /\ \E startingValues \in StartingValues(dims) :
            \E rule \in {"omitted", ANYRULE} :
              CAConstructor(dims, startingValues, "omitted", rule)
       /\ currentStateBuffer = [i \in 0 .. NCells(dims) - 1 |-> undefined]
       /\ nextStateBuffer = [i \in 0 .. NCells(dims) - 1 |-> undefined]
  /\ pc = "idle"
  /\ loopIndex = 0
  /\ STOP = TRUE
  /\ tickLoopIntervalId = "null"
  /\ NoMapperCall
  /\ NoObjects
  /\ PageStart

\* A first loop that stores the new state in the grid.
IterateComputeStore_InPlace(grid, buffer, i, state) ==
  [cells |-> [grid EXCEPT ![i] = state], nextStateBuffer |-> buffer]

\* iterate, first loop: this.nextStateBuffer[i] = <state>
IterateComputeStore(grid, buffer, i, state) ==
  [cells |-> grid, nextStateBuffer |-> [buffer EXCEPT ![i] = state]]

\* The states currentRule.apply can return for cell i
ApplyReturns(i) ==
  IF currentRule = ANYRULE THEN PaintStates
  ELSE {getNextState(currentRule, dimensionOrders, cells, i)}

\* iterate, first loop, one cell for which getNextState returns
RaiseComputeStep ==
  /\ pc = "compute"
  /\ IF loopIndex < ArrLen(cells)
     THEN /\ \E state \in ApplyReturns(loopIndex) :
               LET stored == IterateComputeStore(cells, nextStateBuffer,
                                                 loopIndex, state)
               IN /\ cells' = stored.cells
                  /\ nextStateBuffer' = stored.nextStateBuffer
          /\ loopIndex' = loopIndex + 1
          /\ pc' = pc
     ELSE /\ pc' = "write"
          /\ loopIndex' = 0
          /\ UNCHANGED <<cells, nextStateBuffer>>
  /\ UNCHANGED <<dimensionOrders, currentRule, currentNeighborhoodType,
                 dirtyRects, op, consoleLevel, thrown, currentStateBuffer,
                 STOP, tickLoopIntervalId, mapperVars, heapVars>>
  /\ UNCHANGED pageVars

\* iterate, first loop, one cell for which getNextState raises: neither
\* iterate nor tickAction nor keypressEvent has a try, the error leaves the
\* handler and the event loop takes the next task
RaiseComputeThrow ==
  /\ pc = "compute"
  /\ loopIndex < ArrLen(cells)
  /\ currentRule = ANYRULE
  /\ thrown' \in {NewDimensionError, NewIndexOutOfBoundsError}
  /\ pc' = "idle"
  /\ UNCHANGED <<dimensionOrders, cells, currentRule, currentNeighborhoodType,
                 dirtyRects, op, consoleLevel, loopIndex, currentStateBuffer,
                 nextStateBuffer, STOP, tickLoopIntervalId, mapperVars,
                 heapVars>>
  /\ UNCHANGED pageVars

NextRaise ==
  \/ KeypressSpace
  \/ RaiseComputeStep
  \/ RaiseComputeThrow
  \/ IterateWriteStep
  \/ IterateSwap
  \/ PointerPaint

SpecRaise == InitRaise /\ [][NextRaise]_vars

\* -------------------------------------------- the persistence specification
\* The page with its state files: the state of the CA is exported, the page
\* goes on, and an exported state is loaded again.

\* JSON null; it is different from every number and from undefined.
null == 0 - 8

\* rule.ruleName, the key of the rule in the registry
ruleName(rule) == IF rule = RULE110 THEN "rule110" ELSE "sand"

\* JSON.stringify followed by JSON.parse on one element of an array of
\* numbers: undefined is written as null
JSONElement(v) == IF v = undefined THEN null ELSE v

\* exportStateToJSON(ca, name, tickCount), then importStateFromJSON on the
\* text: the fields of the state the load reads
exportStateToJSON ==
  [neighborhood |-> currentNeighborhoodType,
   rule |-> ruleName(currentRule),
   width |-> dimensionOrders[0],
   height |-> dimensionOrders[1],
   cells |-> [i \in DOMAIN cells |-> JSONElement(cells[i])]]

\* importStateFromJSON: the test of the required fields
importStateFromJSONAccepts(state) ==
  /\ state.neighborhood # ""
  /\ state.rule # ""
  /\ state.width \in Int
  /\ state.height \in Int

\* The text Array.prototype.join writes for one element: null and undefined
\* give the empty text
ElementText(v) ==
  CASE v = 0 - 1 -> "-1"
    [] v = 0 -> "0"
    [] v = 1 -> "1"
    [] v = 2 -> "2"
    [] OTHER -> ""

\* cellsToInitialConfig(cells) = cells.join(","): the text, as the array of
\* its fields between the commas
cellsToInitialConfig(stateCells) ==
  [i \in DOMAIN stateCells |-> ElementText(stateCells[i])]

\* Number(text) for one field of the text
NumberOfText(text) ==
  CASE text = "-1" -> 0 - 1
    [] text = "0" -> 0
    [] text = "1" -> 1
    [] text = "2" -> 2
    [] OTHER -> 0

\* initialConfigStr.split(',').map(Number); the empty text has one field
ParseInitialConfig(initialConfigStr) ==
  IF ArrLen(initialConfigStr) = 0 THEN Vec1(0)
  ELSE [i \in DOMAIN initialConfigStr |-> NumberOfText(initialConfigStr[i])]

\* A submit that hands the height as the first axis.
SubmittedDimensionOrders_Swapped(width, height) == Vec2(height, width)

\* submitDimensions: DIMENSIONORDERS = [width, height]
SubmittedDimensionOrders(width, height) == Vec2(width, height)

\* submitDimensions(width, height, initialConfigStr, canvasElement) after the
\* page has put the CA at (type, rule): a new CA with the grid of the text
\* and the neighbourhood type and rule of the previous one
submitDimensionsAfter(type, rule, width, height, initialConfigStr) ==
  /\ dimensionOrders' = SubmittedDimensionOrders(width, height)
  /\ cells' = CreateCells(SubmittedDimensionOrders(width, height),
                          ParseInitialConfig(initialConfigStr))
  /\ currentNeighborhoodType' = type
  /\ currentRule' = rule
  /\ dirtyRects' = {}
  /\ consoleLevel' = "log"
  /\ thrown' = "none"

\* submitDimensions called by the form
submitDimensions(width, height, initialConfigStr) ==
  /\ submitDimensionsAfter(currentNeighborhoodType, currentRule,
                           width, height, initialConfigStr)
  /\ op' = "submitDimensions"

\* loadFullState(state): switchNeighborhoodType(state.neighborhood),
\* switchRule(state.rule), then config.submit() with the width, the height
\* and the joined cells of the state
loadFullState(state) ==
  LET switched == AfterSwitchNeighborhoodType(currentNeighborhoodType,
                                              currentRule, state.neighborhood)
      rule == AfterSwitchRule(switched.currentNeighborhoodType,
                              switched.currentRule, state.rule)
  IN /\ submitDimensionsAfter(switched.currentNeighborhoodType, rule,
                              state.width, state.height,
                              cellsToInitialConfig(state.cells))
     /\ op' = "loadFullState"

\* entry(): the page starts with no state exported
InitPersist ==
  /\ \E dims \in LoopShapes :
       \E startingValues \in StartingValues(dims) :
         CAConstructor(dims, startingValues, "omitted", "omitted")
  /\ position = <<>>
  /\ index = undefined
  /\ ret = <<>>
  /\ NoObjects
  /\ NoCallback
  /\ PageStart

\* the save button: the state is exported and downloaded
PersistExport ==
  /\ ret' = exportStateToJSON
  /\ op' = "exportStateToJSON"
  /\ consoleLevel' = "none"
  /\ thrown' = "none"
  /\ UNCHANGED <<dimensionOrders, cells, currentRule, currentNeighborhoodType,
                 dirtyRects, position, index, loopVars, heapVars>>
  /\ UNCHANGED pageVars

\* the load button with the file exported last
PersistLoad ==
  /\ ret # <<>>
  /\ importStateFromJSONAccepts(ret)
  /\ loadFullState(ret)
  /\ UNCHANGED <<mapperVars, loopVars, heapVars>>
  /\ UNCHANGED pageVars

\* the form is submitted with other dimensions and an empty pattern
PersistSubmit ==
  /\ \E dims \in LoopShapes : submitDimensions(dims[0], dims[1], <<>>)
  /\ UNCHANGED <<mapperVars, loopVars, heapVars>>
  /\ UNCHANGED pageVars

\* a pointer event on the canvas
PersistPaint ==
  /\ \E pos \in PaintPositions(dimensionOrders) :
       \E state \in SandAvailableStates : scuffCell(pos, state)
  /\ UNCHANGED <<mapperVars, loopVars, heapVars>>
  /\ UNCHANGED pageVars

NextPersist ==
  \/ PersistExport
  \/ PersistLoad
  \/ PersistSubmit
  \/ PersistPaint
  \/ SwitchNeighborhoodType
  \/ SwitchRule
  \/ CallIterate

SpecPersist == InitPersist /\ [][NextPersist]_vars

\* --------------------------------------------- the dirty-tracking specification
\* Steps, paints and clearDirty calls on a constructed and drawn CA, with
\* the state every cell had when the dirty set was last empty by
\* construction or by clearDirty.
InitDirty ==
  /\ \E dims \in LoopShapes :
       \E startingValues \in StartingValues(dims) :
         \E neighborhoodType \in NeighborhoodType \cup {"omitted"} :
           \E rule \in Rules \cup {"omitted"} :
             CAConstructor(dims, startingValues, neighborhoodType, rule)
  /\ NoMapperCall
  /\ NoObjects
  /\ NoCallback
  /\ clearedCells = cells
  /\ TICKRATE = 60
  /\ intervals = {}

\* ca.iterate()
DirtyIterate ==
  /\ iterate
  /\ UNCHANGED <<mapperVars, loopVars, heapVars, pageVars>>

\* ca.scuffCell(position, state)
DirtyScuffCell ==
  /\ \E pos \in PaintPositions(dimensionOrders) :
       \E state \in PaintStates : scuffCell(pos, state)
  /\ UNCHANGED <<mapperVars, loopVars, heapVars, pageVars>>

\* ca.clearDirty()
DirtyClearDirty ==
  /\ clearDirty
  /\ clearedCells' = cells
  /\ UNCHANGED <<mapperVars, loopVars, heapVars, TICKRATE, intervals>>

NextDirty == DirtyIterate \/ DirtyScuffCell \/ DirtyClearDirty

SpecDirty == InitDirty /\ [][NextDirty]_vars

\* ------------------------------------------------- the states specification
\* A CA whose grid holds states of its rule only: steps, paints with a state
\* of the rule that is active, and calls of the two setters.
InitStates ==
  /\ \E rule \in Rules :
       \E dims \in LoopShapes :
         \E startingValues \in [0 .. NCells(dims) - 1 -> RuleAvailableStates(rule)] :
           CAConstructor(dims, startingValues, RuleNeighborhoodType(rule), rule)
  /\ NoMapperCall
  /\ NoObjects
  /\ NoCallback
  /\ PageStart

\* the paintbrush: a state of currentRule.getAvailableStates()
StatesPaint ==
  /\ \E pos \in PaintPositions(dimensionOrders) :
       \E state \in RuleAvailableStates(currentRule) : scuffCell(pos, state)
  /\ UNCHANGED <<mapperVars, loopVars, heapVars, pageVars>>

NextStates ==
  \/ StatesPaint
  \/ CallIterate
  \/ CallSetNeighborhoodType
  \/ CallSetRule

SpecStates == InitStates /\ [][NextStates]_vars

\* --------------------------------------------------- the tick specification
\* The play/pause button and the tick-rate slider, with the interval timer.

\* The rates the slider hands to setTickRate; it ranges over 0 .. 255
TickRates == {0, 1, 60, 255}

\* setTickRate(newRate)
SetTickRate ==
  /\ CallStackEmpty(pc)
  /\ \E newRate \in TickRates : TICKRATE' = newRate
  /\ LET live == IF tickLoopIntervalId # "null"
                 THEN clearInterval(intervals, tickLoopIntervalId)
                 ELSE intervals
     IN IF ~STOP
        THEN /\ tickLoopIntervalId' = setInterval(live)
             /\ intervals' = live \cup {setInterval(live)}
        ELSE /\ tickLoopIntervalId' = "null"
             /\ intervals' = live
  /\ op' = "setTickRate"
  /\ consoleLevel' = "none"
  /\ thrown' = "none"
  /\ UNCHANGED <<dimensionOrders, cells, currentRule, currentNeighborhoodType,
                 dirtyRects, pc, loopIndex, currentStateBuffer,
                 nextStateBuffer, STOP, mapperVars, heapVars, clearedCells>>

NextTick ==
  \/ ToggleTickLoop
  \/ SetTickRate
  \/ IntervalTick
  \/ IterateComputeStep
  \/ IterateWriteStep
  \/ IterateSwap

SpecTick == InitLoop /\ [][NextTick]_vars

\* ------------------------------------------------- the render specification
\* The render loop beside the tick loop and the paintbrush: every animation
\* frame runs renderFrame and requests the next one, and a handler that was
\* started runs to its end before the next callback.

\* A renderFrame that draws only while the simulation is running.
RenderLoopFrame_OnlyWhenRunning ==
  /\ CallStackEmpty(pc)
  /\ IF ~STOP /\ Cardinality(dirtyRects) > 0
     THEN /\ dirtyRects' = {}
          /\ clearedCells' = cells
     ELSE UNCHANGED <<dirtyRects, clearedCells>>
  /\ op' = "renderFrame"
  /\ consoleLevel' = "none"
  /\ thrown' = "none"
  /\ UNCHANGED <<dimensionOrders, cells, currentRule, currentNeighborhoodType,
                 mapperVars, loopVars, heapVars, TICKRATE, intervals>>

\* renderFrame(): ca.redraw(); ca.clearDirty() when getDirtyRects().size > 0,
\* in the branch of a running and in the branch of a stopped simulation
RenderLoopFrame ==
  /\ CallStackEmpty(pc)
  /\ IF ~STOP
     THEN IF Cardinality(dirtyRects) > 0
          THEN /\ dirtyRects' = {}
               /\ clearedCells' = cells
          ELSE UNCHANGED <<dirtyRects, clearedCells>>
     ELSE IF Cardinality(dirtyRects) > 0
          THEN /\ dirtyRects' = {}
               /\ clearedCells' = cells
          ELSE UNCHANGED <<dirtyRects, clearedCells>>
  /\ op' = "renderFrame"
  /\ consoleLevel' = "none"
  /\ thrown' = "none"
  /\ UNCHANGED <<dimensionOrders, cells, currentRule, currentNeighborhoodType,
                 mapperVars, loopVars, heapVars, TICKRATE, intervals>>

NextRender ==
  \/ IntervalTick
  \/ IterateComputeStep
  \/ IterateWriteStep
  \/ IterateSwap
  \/ PointerPaint
  \/ RenderLoopFrame
  \/ ToggleTickLoop

\* requestAnimationFrame(renderFrame) is called again at the end of every
\* frame, and the browser runs the frame callback whenever the call stack is
\* empty at a frame: renderFrame is taken infinitely often. A started
\* iterate() runs to completion.
RenderFairness ==
  /\ SF_vars(RenderLoopFrame)
  /\ WF_vars(IterateComputeStep)
  /\ WF_vars(IterateWriteStep)
  /\ WF_vars(IterateSwap)

SpecRender == InitLoop /\ [][NextRender]_vars /\ RenderFairness

\* ------------------------------------------- the neighbourhood specification
\* The neighbourhood functions of CellSpace on two-dimensional grids, square
\* and not. A Cell object is named by the index it has in this.cells, and a
\* read of this.cells outside 0 .. length-1 is undefined.

\* [width, height] with both sizes from 1 to MaxOrder
NeighborShapes == [0 .. 1 -> 1 .. MaxOrder]

\* the positions (row, col) getPositionIsValid accepts
ValidPositions(dims) ==
  {p \in [0 .. 1 -> 0 .. MaxOrder - 1] : getPositionIsValid(dims, p)}

\* this.cells[idx]: the Cell object at idx
CellObjectAt(grid, idx) == IF idx \in DOMAIN grid THEN idx ELSE undefined

\* const offsets = [-1, 0, 1]
elementaryOffsets == (0 :> 0 - 1) @@ (1 :> 0) @@ (2 :> 1)

\* CellSpace.elementaryNeighborhood(position): the three Cell objects
elementaryNeighborhood(dims, grid, pos) ==
  [i \in 0 .. 2 |->
     LET neighborPos == pos[1] + elementaryOffsets[i]
     IN IF neighborPos < 0 \/ neighborPos >= dims[1]
        THEN CellObjectAt(grid, getIndex(dims, pos))
        ELSE CellObjectAt(grid, pos[0] * IndexOrders(dims)[1] + neighborPos)]

\* const offsets = [[-1, -1], [-1, 0], [-1, 1], [0, -1], [0, 0], [0, 1],
\*                  [1, -1], [1, 0], [1, 1]]
threesquareOffsets ==
  [k \in 0 .. 8 |-> Vec2((k \div 3) - 1, (k % 3) - 1)]

\* CellSpace.threesquareNeighborhood(position): the nine Cell objects
threesquareNeighborhood(dims, grid, pos) ==
  [k \in 0 .. 8 |->
     LET x == pos[0]
         y == pos[1]
         nx == x + threesquareOffsets[k][0]
         ny == y + threesquareOffsets[k][1]
     IN IF nx < 0 \/ nx >= dims[0] \/ ny < 0 \/ ny >= dims[1]
        THEN CellObjectAt(grid, getIndex(dims, pos))
        ELSE CellObjectAt(grid, nx * IndexOrders(dims)[1] + ny)]

\* CellSpace.getNeighborhood(index)
getNeighborhood(dims, grid, i) ==
  threesquareNeighborhood(dims, grid, getPosition(dims, i))

\* new CellSpace(dims, startingValues)
InitNeighborhood ==
  /\ \E dims \in NeighborShapes :
       /\ dimensionOrders = dims
       /\ \E startingValues \in [0 .. NCells(dims) - 1 -> {EMPTY}]
                                  \cup [0 .. NCells(dims) - 1 -> {SAND}] :
            cells = CreateCells(dims, startingValues)
  /\ currentNeighborhoodType = MOORE
  /\ currentRule = SANDRULE
  /\ dirtyRects = {}
  /\ op = "constructor"
  /\ consoleLevel = "log"
  /\ thrown = "none"
  /\ NoMapperCall
  /\ NoObjects
  /\ NoCallback
  /\ PageStart

\* cellSpace.elementaryNeighborhood(position)
CallElementaryNeighborhood ==
  /\ \E p \in ValidPositions(dimensionOrders) :
       /\ position' = p
       /\ ret' = elementaryNeighborhood(dimensionOrders, cells, p)
  /\ op' = "elementaryNeighborhood"
  /\ thrown' = "none"
  /\ UNCHANGED <<dimensionOrders, cells, currentRule, currentNeighborhoodType,
                 dirtyRects, consoleLevel, index, loopVars, heapVars>>
  /\ UNCHANGED pageVars

\* cellSpace.threesquareNeighborhood(position)
CallThreesquareNeighborhood ==
  /\ \E p \in ValidPositions(dimensionOrders) :
       /\ position' = p
       /\ ret' = threesquareNeighborhood(dimensionOrders, cells, p)
  /\ op' = "threesquareNeighborhood"
  /\ thrown' = "none"
  /\ UNCHANGED <<dimensionOrders, cells, currentRule, currentNeighborhoodType,
                 dirtyRects, consoleLevel, index, loopVars, heapVars>>
  /\ UNCHANGED pageVars

\* cellSpace.getNeighborhood(index)
CallGetNeighborhood ==
  /\ \E i \in DOMAIN cells :
       /\ index' = i
       /\ ret' = getNeighborhood(dimensionOrders, cells, i)
  /\ op' = "getNeighborhood"
  /\ thrown' = "none"
  /\ UNCHANGED <<dimensionOrders, cells, currentRule, currentNeighborhoodType,
                 dirtyRects, consoleLevel, position, loopVars, heapVars>>
  /\ UNCHANGED pageVars

NextNeighborhood ==
  \/ CallElementaryNeighborhood
  \/ CallThreesquareNeighborhood
  \/ CallGetNeighborhood

SpecNeighborhood == InitNeighborhood /\ [][NextNeighborhood]_vars

\* --------------------------------------------------- the sand specification
\* Generations of the sand rule from every grid of sand states.

\* the largest grid of the sand specification has MaxSandCells cells
MaxSandCells == 6

\* [width, height]
SandShapes ==
  {d \in [0 .. 1 -> 1 .. MaxSandSide] : d[0] * d[1] <= MaxSandCells}

\* new CA(width, height, bounds) with initialConfig any grid of sand states:
\* MOORE and SandRule are the defaults
InitSand ==
  /\ \E dims \in SandShapes :
       \E startingValues \in [0 .. NCells(dims) - 1 -> SandAvailableStates] :
         CAConstructor(dims, startingValues, "omitted", "omitted")
  /\ NoMapperCall
  /\ NoObjects
  /\ NoCallback
  /\ PageStart

NextSand == CallIterate

SpecSand == InitSand /\ [][NextSand]_vars

\* ------------------------------------------------------------------ claims
\* The states every cell must take in one generation: the active rule applied
\* to each position of the grid as it is before the generation begins.
BufferedReference ==
  [i \in DOMAIN cells |->
     RuleApply(currentRule, dimensionOrders, cells, getPosition(dimensionOrders, i))]

\* The grid a single in-place pass would leave behind.
InPlaceReference == IterateInPlaceLoop(currentRule, dimensionOrders, cells, 0)

\* A row of three cells under Rule 110 holding the given states.
Rule110Row(a, b, c) ==
  /\ currentRule = RULE110
  /\ dimensionOrders = Vec2(3, 1)
  /\ cells = Vec3(a, b, c)

\* C1 as stated: from every reachable grid, iterate leaves each cell with the
\* rule's value on the grid as it was before the call, and on the Rule 110 row
\* [1,0,1] that result is not the result of the in-place update.
C1_BufferedAndRow101Differs ==
  /\ iterateResult.cells = BufferedReference
  /\ Rule110Row(1, 0, 1) => iterateResult.cells # InPlaceReference

\* C1 amended: from every reachable grid, iterate leaves each cell with the
\* rule's value on the grid as it was before the call; the in-place update
\* gives another grid on the Rule 110 row [0,1,1], and the same grid [1,1,1]
\* on the row [1,0,1].
C1_BufferedAndRow011Differs ==
  /\ iterateResult.cells = BufferedReference
  /\ Rule110Row(0, 1, 1) => iterateResult.cells # InPlaceReference
  /\ Rule110Row(1, 0, 1) => iterateResult.cells = InPlaceReference

\* C1 witness: an iterate on a Rule 110 row has just produced [1,1,1] by
\* changing cell 0 alone, which happens from [0,1,1] (in-place gives [1,0,1]).
C1_Witness ==
  /\ op = "iterate"
  /\ Rule110Row(1, 1, 1)
  /\ dirtyRects = {0}

\* C2: on a grid of any dimensionality with every axis size >= 1, getIndex of
\* a position that getPositionIsValid accepts returns an index of the cells
\* whose getPosition is that position; getPosition of an index of the cells
\* returns a position that getPositionIsValid accepts and whose getIndex is
\* that index.
C2_MapperInverseLaw ==
  /\ op = "getIndex" /\ getPositionIsValid(dimensionOrders, position)
       => /\ thrown = "none"
          /\ index \in 0 .. NCells(dimensionOrders) - 1
          /\ getPosition(dimensionOrders, index) = position
  /\ op = "getPosition" /\ index \in 0 .. NCells(dimensionOrders) - 1
       => /\ getPositionIsValid(dimensionOrders, position)
          /\ getIndex(dimensionOrders, position) = index

\* getPosition(5) = (0, 1, 2) on a grid with dimensionOrders [3, 2, 1]: a
\* position that is valid only because the axes are paired in reverse order.
C2_Witness ==
  /\ op = "getPosition"
  /\ dimensionOrders = Vec3(3, 2, 1)
  /\ index = 5
  /\ position = Vec3(0, 1, 2)

\* The active rule requires the active neighborhood type.
RuleMatchesNeighborhood ==
  RuleNeighborhoodType(currentRule) = currentNeighborhoodType

\* C3 as stated: in every reachable state the active rule's required
\* neighborhood type equals the active neighborhood type.
C3_AlwaysMatches == RuleMatchesNeighborhood

\* C3 amended: the rule matches the neighborhood type after every accepted
\* setRule, and once it matches, every call other than setNeighborhoodType
\* (setRule, iterate, scuffCell, getDirtyRects, clearDirty) keeps it so.
C3_MatchKeptExceptBySetNeighborhoodType ==
  /\ [](op = "setRule" /\ consoleLevel # "error" => RuleMatchesNeighborhood)
  /\ [][RuleMatchesNeighborhood /\ op' # "setNeighborhoodType"
          => RuleMatchesNeighborhood']_vars

\* C3 witness: setRule has just installed a rule in a CA whose cells iterate
\* or scuffCell had already changed.
C3_Witness ==
  /\ op = "setRule"
  /\ consoleLevel = "none"
  /\ RuleMatchesNeighborhood
  /\ dirtyRects # {}

\* C4: a setRule with a rule whose neighborhood type is not the active one
\* changes neither the rule, the neighborhood type, the grid, the state
\* buffers nor the dirty set.
C4_RejectedSetRuleIsNoOp ==
  [][\A rule \in Rules :
       setRule(rule) /\ RuleNeighborhoodType(rule) # currentNeighborhoodType
         => UNCHANGED <<currentRule, currentNeighborhoodType, dimensionOrders,
                        cells, dirtyRects, currentStateBuffer, nextStateBuffer>>]_vars

\* C4 witness: setRule has just refused a rule (it logged the error) in a CA
\* with a non-empty dirty set.
C4_Witness ==
  /\ op = "setRule"
  /\ consoleLevel = "error"
  /\ dirtyRects # {}

\* C5: a setRule with a rule whose neighborhood type is not the active one
\* ends with an IncompatibleRule error, and every other setRule ends normally.
C5_SetRuleReportsOutcome ==
  [][\A rule \in Rules :
       setRule(rule) =>
         IF RuleNeighborhoodType(rule) # currentNeighborhoodType
         THEN thrown' = "IncompatibleRule"
         ELSE thrown' = "none"]_vars

\* The indices whose state iterate changes in the current state.
ChangedByIterate == {i \in DOMAIN cells : iterateResult.cells[i] # cells[i]}

\* C6 as stated: after iterate the dirty set is exactly the set of indices
\* whose state changed in that generation.
C6_DirtyIsExactlyChanged == iterateResult.dirtyRects = ChangedByIterate

\* C6 amended: after iterate the dirty set is the dirty set before the call
\* together with the indices whose state changed in that generation (exactly
\* those indices when the set was empty before the call).
C6_DirtyIsOldPlusChanged ==
  iterateResult.dirtyRects = dirtyRects \cup ChangedByIterate

\* C6 witness: after an iterate of the sand rule the dirty set holds the index
\* of a ROCK cell, which the rule neither changes nor creates (the index was
\* dirty before the generation), and an index of another cell.
C6_Witness ==
  /\ op = "iterate"
  /\ currentRule = SANDRULE
  /\ \E i \in dirtyRects : cells[i] = ROCK
  /\ \E i \in dirtyRects : cells[i] # ROCK

\* C7: no call other than clearDirty removes an index from the dirty set,
\* getDirtyRects leaves it as it is, and it only becomes empty by clearDirty.
C7_DirtyOnlyGrowsUntilCleared ==
  /\ [][op' # "clearDirty" => dirtyRects \subseteq dirtyRects']_vars
  /\ [][op' = "getDirtyRects" => dirtyRects' = dirtyRects]_vars
  /\ [][dirtyRects # {} /\ dirtyRects' = {} => op' = "clearDirty"]_vars
  /\ [][op' = "clearDirty" => dirtyRects' = {}]_vars

\* C7 witness: getDirtyRects has just returned a set of three indices; one
\* scuffCell adds at most one, so the entries of several calls were kept.
C7_Witness ==
  /\ op = "getDirtyRects"
  /\ Cardinality(dirtyRects) >= 3

\* A position of the grid: (row, col) with 0 <= row < height, 0 <= col < width.
IsGridPosition(pos) ==
  /\ DOMAIN pos = 0 .. 1
  /\ pos[0] \in 0 .. dimensionOrders[1] - 1
  /\ pos[1] \in 0 .. dimensionOrders[0] - 1

\* C8: from every reachable state, scuffCell with a position that is not a
\* position of the grid (a coordinate out of range, or not two coordinates)
\* throws nothing and changes neither a cell nor the dirty set.
C8_InvalidPaintIsSilentNoOp ==
  \A pos \in PaintPositions(dimensionOrders) : \A state \in PaintStates :
    ~IsGridPosition(pos)
      => LET result == scuffCellResult(pos, state)
         IN /\ result.thrown = "none"
            /\ result.cells = cells
            /\ result.dirtyRects = dirtyRects

\* C8 witness: scuffCell has just refused a position (it logged the warning)
\* on a grid with a non-empty dirty set.
C8_Witness ==
  /\ op = "scuffCell"
  /\ consoleLevel = "warn"
  /\ dirtyRects # {}

\* C9: from every reachable state, scuffCell(position, state) at a valid
\* position (row, col) writes state to the cell at row * width + col and to
\* no other cell, whatever the rule would compute, and adds that index to the
\* dirty set exactly when the state written differs from the state the cell
\* had.
C9_ValidPaintIsDirectWrite ==
  \A pos \in PaintPositions(dimensionOrders) : \A state \in PaintStates :
    IsGridPosition(pos)
      => LET idx == pos[0] * dimensionOrders[0] + pos[1]
             result == scuffCellResult(pos, state)
         IN /\ result.cells = [i \in DOMAIN cells |-> IF i = idx THEN state ELSE cells[i]]
            /\ result.dirtyRects =
                 (IF cells[idx] # state THEN dirtyRects \cup {idx} ELSE dirtyRects)
            /\ result.thrown = "none"

\* C9 witness: scuffCell has just written ROCK into one cell of a grid whose
\* dirty set was empty, under Rule 110, which never computes ROCK.
C9_Witness ==
  /\ op = "scuffCell"
  /\ consoleLevel = "log"
  /\ currentRule = RULE110
  /\ Cardinality(dirtyRects) = 1
  /\ \E i \in dirtyRects : cells[i] = ROCK

\* C10: a generation is atomic under every interleaving of interval ticks,
\* space-key ticks, pointer paints, render frames and play/pause toggles:
\* while an iterate is between its first and its last statement, the only
\* steps taken are steps of that iterate, which leave the rule, the grid's
\* shape and the play state alone; when its loops have finished, the cells
\* are the rule applied to the cells the iterate started from and every cell
\* that differs from them is in the dirty set; the swap that ends it changes
\* no cell.
C10_GenerationIsAtomic ==
  /\ [][pc # "idle"
          => /\ op' = "iterate"
             /\ pc' # "compute" \/ pc = "compute"
             /\ UNCHANGED <<dimensionOrders, currentRule,
                            currentNeighborhoodType, STOP, tickLoopIntervalId>>
             /\ pc = "compute" => UNCHANGED <<cells, dirtyRects>>
             /\ pc = "swap" => UNCHANGED <<cells, dirtyRects>> /\ pc' = "idle"]_vars
  /\ [](pc = "swap"
          => /\ cells = IterateCompute(currentRule, dimensionOrders,
                                       currentStateBuffer)
             /\ \A i \in DOMAIN cells :
                  cells[i] # currentStateBuffer[i] => i \in dirtyRects)

\* an iterate has run to its swap, with the interval timer set, on a column
\* of two cells in which the sand fell by one cell
C10_Witness ==
  /\ pc = "swap"
  /\ tickLoopIntervalId = "interval"
  /\ dimensionOrders = Vec2(1, 2)
  /\ currentStateBuffer = Vec2(SAND, EMPTY)
  /\ cells = Vec2(EMPTY, SAND)
  /\ dirtyRects = {0, 1}

\* The cell at (row, col) of the grid, or beyond when (row, col) is outside it.
StateAt(row, col, beyond) ==
  IF row \in 0 .. dimensionOrders[1] - 1 /\ col \in 0 .. dimensionOrders[0] - 1
  THEN cells[row * dimensionOrders[0] + col]
  ELSE beyond

\* Row and column of the cell a getNextState call was asked about.
CalledRow == index \div dimensionOrders[0]
CalledCol == index % dimensionOrders[0]

\* C11: on every grid of states 0 and 1 and for every cell, the next state
\* under Rule 110 is entry left*4 + center*2 + right of [0,1,1,1,0,1,1,0],
\* where left, center and right are the cells at columns col-1, col, col+1 of
\* the cell's row and a column outside the grid counts as 0.
C11_Rule110Fidelity ==
  op = "getNextState" /\ currentRule = RULE110
    => LET left == StateAt(CalledRow, CalledCol - 1, 0)
           center == StateAt(CalledRow, CalledCol, 0)
           right == StateAt(CalledRow, CalledCol + 1, 0)
       IN /\ position = Vec2(CalledRow, CalledCol)
          /\ ret = <<0, 1, 1, 1, 0, 1, 1, 0>>[left * 4 + center * 2 + right + 1]

\* the leftmost cell of the row [0,1,0,1,0]: left 0, center 0, right 1 gives 1
C11_Witness ==
  /\ op = "getNextState"
  /\ currentRule = RULE110
  /\ dimensionOrders = Vec2(5, 1)
  /\ cells = [i \in 0 .. 4 |-> IF i \in {1, 3} THEN 1 ELSE 0]
  /\ index = 0
  /\ ret = 1

\* The ordered decision list of the sand rule for a cell in state self with
\* the eight neighbors given: the first condition that holds decides.
SandDecisionList(upLeft, up, upRight, left, self, right, downLeft, down, downRight) ==
  IF self = EMPTY
  THEN IF up = SAND THEN SAND
       ELSE IF upRight = SAND /\ right # EMPTY /\ up = EMPTY THEN SAND
       ELSE IF left = COMPACTED_SAND /\ upLeft = SAND /\ downLeft # EMPTY THEN SAND
       ELSE EMPTY
  ELSE IF self = SAND
  THEN IF down = EMPTY THEN EMPTY
       ELSE IF downLeft = EMPTY /\ left = EMPTY THEN EMPTY
       ELSE IF down # EMPTY /\ up \in {SAND, COMPACTED_SAND} THEN COMPACTED_SAND
       ELSE IF down = COMPACTED_SAND /\ right = EMPTY /\ downRight = EMPTY THEN EMPTY
       ELSE SAND
  ELSE IF self = COMPACTED_SAND
  THEN IF down = EMPTY THEN SAND
       ELSE IF down = SAND THEN SAND
       ELSE IF up \in {EMPTY, ROCK} THEN SAND
       ELSE COMPACTED_SAND
  ELSE ROCK

\* C12: on every grid of sand states and for every cell, the next state under
\* the sand rule is what the ordered decision list gives for the cell's state
\* and its neighbors up-left, up, up-right, left, right, down-left, down,
\* down-right relative to (row, col), a neighbor outside the grid being ROCK.
C12_SandTransitionTable ==
  op = "getNextState" /\ currentRule = SANDRULE
    => ret = SandDecisionList(
               StateAt(CalledRow - 1, CalledCol - 1, ROCK),
               StateAt(CalledRow - 1, CalledCol, ROCK),
               StateAt(CalledRow - 1, CalledCol + 1, ROCK),
               StateAt(CalledRow, CalledCol - 1, ROCK),
               StateAt(CalledRow, CalledCol, ROCK),
               StateAt(CalledRow, CalledCol + 1, ROCK),
               StateAt(CalledRow + 1, CalledCol - 1, ROCK),
               StateAt(CalledRow + 1, CalledCol, ROCK),
               StateAt(CalledRow + 1, CalledCol + 1, ROCK))

\* the center of a 3 x 3 grid: SAND with SAND above and EMPTY below falls
\* (first check) and is not compacted (third check)
C12_Witness ==
  /\ op = "getNextState"
  /\ currentRule = SANDRULE
  /\ dimensionOrders = Vec2(3, 3)
  /\ cells = [i \in 0 .. 8 |-> IF i \in {1, 4} THEN SAND ELSE EMPTY]
  /\ index = 4
  /\ ret = EMPTY

\* C13: under the sand rule, whenever a cell is SAND and the cell of the grid
\* directly below it is EMPTY, one iterate leaves the upper cell EMPTY and the
\* lower cell SAND; the column [SAND, EMPTY] becomes [EMPTY, SAND].
C13_SandFalls ==
  currentRule = SANDRULE
    => \A i \in DOMAIN cells :
         LET below == i + dimensionOrders[0]
         IN below \in DOMAIN cells /\ cells[i] = SAND /\ cells[below] = EMPTY
              => /\ iterateResult.cells[i] = EMPTY
                 /\ iterateResult.cells[below] = SAND

\* an iterate has left the column [EMPTY, SAND] of a grid one cell wide and
\* two cells tall with both cells changed
C13_Witness ==
  /\ op = "iterate"
  /\ currentRule = SANDRULE
  /\ dimensionOrders = Vec2(1, 2)
  /\ cells = Vec2(EMPTY, SAND)
  /\ dirtyRects = {0, 1}

\* The grid with a wall of ROCK, one cell thick, added on every side.
WalledShape == Vec2(dimensionOrders[0] + 2, dimensionOrders[1] + 2)
WalledCells ==
  [i \in 0 .. (dimensionOrders[0] + 2) * (dimensionOrders[1] + 2) - 1 |->
     StateAt((i \div (dimensionOrders[0] + 2)) - 1,
             (i % (dimensionOrders[0] + 2)) - 1, ROCK)]

\* C14: under the sand rule a cell's next state is the one it has in the same
\* grid surrounded by a wall of ROCK cells (every neighbor beyond an edge,
\* on the left, on the right, above or below, is read as ROCK), and a SAND
\* cell in the bottom row never becomes EMPTY.
C14_SandSolidBoundary ==
  op = "getNextState" /\ currentRule = SANDRULE
    => /\ ret = SandApply(WalledShape, WalledCells,
                          Vec2(CalledRow + 1, CalledCol + 1))
       /\ cells[index] = SAND /\ CalledRow = dimensionOrders[1] - 1
            => ret # EMPTY

\* a SAND cell in the middle of the bottom row of a 3 x 3 grid that is empty
\* otherwise stays SAND
C14_Witness ==
  /\ op = "getNextState"
  /\ currentRule = SANDRULE
  /\ dimensionOrders = Vec2(3, 3)
  /\ cells = [i \in 0 .. 8 |-> IF i = 7 THEN SAND ELSE EMPTY]
  /\ index = 7
  /\ ret = SAND

\* The cell states a grid of the shape of the current one is to be given for
\* the initial values: value i at cell i, state 0 where the values have run
\* out, values beyond the last cell dropped.
ExpectedCells(initialValues) ==
  [i \in 0 .. dimensionOrders[0] * dimensionOrders[1] - 1 |->
     IF i < ArrLen(initialValues) THEN initialValues[i] ELSE 0]

\* C15: the constructor builds, for initial values shorter than, as long as
\* or longer than the grid, exactly the expected cells (length the product
\* of dimensionOrders, missing values 0, surplus values ignored, no error),
\* and no call changes dimensionOrders or the number of cells afterwards.
C15_CreateWithValuesAndNoResize ==
  /\ [](op = "constructor"
          => /\ thrown = "none"
             /\ \A initialValues \in StartingValues(dimensionOrders) :
                  CreateCells(dimensionOrders, initialValues)
                    = ExpectedCells(initialValues)
             /\ \E initialValues \in StartingValues(dimensionOrders) :
                  cells = ExpectedCells(initialValues))
  /\ [](DOMAIN cells = 0 .. dimensionOrders[0] * dimensionOrders[1] - 1)
  /\ [][dimensionOrders' = dimensionOrders /\ DOMAIN cells' = DOMAIN cells]_vars

\* a 3 x 1 grid whose first two cells were painted and iterated has the
\* shape and the three cells it was constructed with
C15_Witness ==
  /\ op = "iterate"
  /\ dimensionOrders = Vec2(3, 1)
  /\ DOMAIN cells = 0 .. 2
  /\ dirtyRects = {0, 1}

\* C16: getIndex with a position whose length is not that of dimensionOrders
\* throws an error that is a DimensionError; getCellAtIndex with an index
\* below 0 or not below cells.length throws an error that is an
\* IndexOutOfBoundsError and is no DimensionError; neither call changes the
\* grid.
C16_EachViolationHasItsOwnErrorKind ==
  /\ [](op = "getIndex" /\ ArrLen(position) # ArrLen(dimensionOrders)
          => thrown = "DimensionError")
  /\ [](op = "getCellAtIndex" /\ (index < 0 \/ index >= ArrLen(cells))
          => thrown = "IndexOutOfBoundsError" /\ thrown # "DimensionError")
  /\ [][thrown' # "none" => UNCHANGED <<dimensionOrders, cells>>]_vars

RECURSIVE SizeOfFirstAxes(_)
\* The product of the sizes of the first k axes of dimensionOrders.
SizeOfFirstAxes(k) ==
  IF k = 0 THEN 1 ELSE SizeOfFirstAxes(k - 1) * dimensionOrders[k - 1]

\* The position of the last getIndex call, one step further along coordinate d.
PositionStepped(d) == [position EXCEPT ![d] = @ + 1]

\* C17 as stated: the last axis of dimensionOrders has stride 1 and a step
\* along position[0] raises the index by exactly 1.
C17_FirstCoordinateIsFastest ==
  op = "getIndex" /\ thrown = "none"
    => /\ IndexOrders(dimensionOrders)[ArrLen(dimensionOrders) - 1] = 1
       /\ getIndex(dimensionOrders, PositionStepped(0)) = index + 1

\* C17 amended: axis 0 of dimensionOrders has stride 1 (it varies fastest)
\* and a position lists the slowest-varying coordinate first: a step along
\* coordinate d raises the index by the product of the sizes of the axes
\* 0 .. D-2-d of dimensionOrders, so a step along the last coordinate raises
\* it by 1 and a step along position[0] by the product of all sizes but the
\* last.
C17_LastCoordinateIsFastest ==
  op = "getIndex" /\ thrown = "none"
    => LET D == ArrLen(dimensionOrders)
       IN /\ IndexOrders(dimensionOrders)[0] = 1
          /\ \A d \in 0 .. D - 1 :
               getIndex(dimensionOrders, PositionStepped(d))
                 = index + SizeOfFirstAxes(D - 1 - d)
          /\ getIndex(dimensionOrders, PositionStepped(D - 1)) = index + 1
          /\ getIndex(dimensionOrders, PositionStepped(0))
               = index + SizeOfFirstAxes(D - 1)

\* getIndex((1, 2)) = 5 on a grid with dimensionOrders [3, 2]: a step along
\* position[0] leads to index 8, a step along position[1] to index 6
C17_Witness ==
  /\ op = "getIndex"
  /\ thrown = "none"
  /\ dimensionOrders = Vec2(3, 2)
  /\ position = Vec2(1, 2)
  /\ index = 5

\* C18: no Cell is shared between two slots. After construction (also with
\* fewer values than cells) and after any sequence of iterate and scuffCell
\* calls, the Cells at two distinct indices are distinct objects, and a call
\* changes the state read at an index only where it put a new Cell.
C18_NoCellIsShared ==
  /\ [](\A i, j \in DOMAIN cellObjects :
          i # j => cellObjects[i] # cellObjects[j])
  /\ [][\A j \in DOMAIN cells :
          cellObjects'[j] = cellObjects[j] => cells'[j] = cells[j]]_vars

\* A grid built from no values (one Cell per slot after the shared one of
\* fill), stepped once and then painted at index 1.
C18_Witness ==
  /\ op = "scuffCell"
  /\ dimensionOrders = Vec2(3, 1)
  /\ cellObjects = [i \in 0 .. 2 |-> IF i = 1 THEN 8 ELSE i + 2]
  /\ stateBuffers.nextStateBuffer = 7
  /\ cells[1] # cells[0]

\* C19: a switch of the rule or of the neighbourhood type recreates the Grid.
\* Every step that changes currentRule or currentNeighborhoodType leaves a
\* new Grid: no Cell of the Grid before the step is in a slot after it, so
\* no state produced under the previous rule is there for iterate to evolve.
C19_SwitchRecreatesGrid ==
  [][(currentRule' # currentRule
        \/ currentNeighborhoodType' # currentNeighborhoodType)
     => \A i \in DOMAIN cellObjects' :
          \A j \in DOMAIN cellObjects : cellObjects'[i] # cellObjects[j]]_vars

\* C20: iterate swaps the two state buffers and allocates none. In every
\* state the current and the next state buffer are the two arrays allocated
\* by the constructor, in one order or the other, and they are two arrays.
C20_BuffersAreTheTwoConstructed ==
  /\ {stateBuffers.currentStateBuffer, stateBuffers.nextStateBuffer}
       = {stateBuffers.stateBuffer1, stateBuffers.stateBuffer2}
  /\ stateBuffers.currentStateBuffer # stateBuffers.nextStateBuffer

\* C21: an error never leaves a partially updated generation. From the
\* start of an iterate call to the step at which rule evaluation raises, no
\* step changes a cell state, the active rule, the active neighbourhood type
\* or the dirty set, and an error is raised only while the new states are
\* computed, before the first cell is written.
C21_RaiseLeavesNoPartialGeneration ==
  /\ [][(pc' = "compute" \/ (thrown' # "none" /\ op' = "iterate"))
        => /\ cells' = cells
           /\ currentRule' = currentRule
           /\ currentNeighborhoodType' = currentNeighborhoodType
           /\ dirtyRects' = dirtyRects]_vars
  /\ [][(thrown = "none" /\ thrown' # "none") => pc = "compute"]_vars

\* iterate has raised at the second cell, after the next state of the
\* first one, different from its state, was computed.
C21_Witness ==
  /\ op = "iterate"
  /\ thrown = NewIndexOutOfBoundsError
  /\ pc = "idle"
  /\ loopIndex = 1
  /\ nextStateBuffer[0] # undefined
  /\ nextStateBuffer[0] # cells[0]
  /\ dirtyRects # {}

\* C22: the persistence round trip. An exported state names the neighbourhood
\* type, the key of the rule, the width, the height and the state of every
\* cell of the CA, and loading it leaves a CA with the same dimensionOrders,
\* the same state at every index, and the same neighbourhood type and rule.
\* The exported state of a cell is the number of the file, or undefined where
\* the file says null.
ExportedStateIsOfTheCA ==
  op = "exportStateToJSON" =>
    /\ ret.neighborhood = currentNeighborhoodType
    /\ ret.rule = ruleName(currentRule)
    /\ Vec2(ret.width, ret.height) = dimensionOrders
    /\ DOMAIN ret.cells = DOMAIN cells
    /\ \A i \in DOMAIN cells :
         ret.cells[i] = (IF cells[i] = undefined THEN null ELSE cells[i])

LoadedConfigurationIsTheExported ==
  op = "loadFullState" =>
    /\ dimensionOrders = Vec2(ret.width, ret.height)
    /\ DOMAIN cells = DOMAIN ret.cells
    /\ currentNeighborhoodType = ret.neighborhood
    /\ ruleName(currentRule) = ret.rule

C23_ChangedSinceClearIsDirty ==
  \A i \in DOMAIN cells : cells[i] # clearedCells[i] => i \in dirtyRects

\* After a clearDirty on a column holding SAND over EMPTY, a step has moved
\* the sand down: both cells differ from the cleared ones and both are dirty.
C23_Witness ==
  /\ op = "iterate"
  /\ currentRule = SANDRULE
  /\ dimensionOrders = Vec2(1, 2)
  /\ clearedCells = Vec2(SAND, EMPTY)
  /\ cells = Vec2(EMPTY, SAND)
  /\ dirtyRects = {0, 1}

\* C24: on the page the rule always matches the neighbourhood. In every state
\* reached by switchNeighborhoodType, switchRule, submitDimensions, loads,
\* paints and steps the neighbourhood type of the current rule is the
\* current neighbourhood type; switchNeighborhoodType with a known type
\* selects the first rule registered for it, switchRule with a key that is
\* not registered for the current type keeps the rule, and submitDimensions
\* hands the type and the rule on to the new CA.
FirstRegisteredRule(type) == IF type = ELEMENTARY THEN RULE110 ELSE SANDRULE

C24_PageKeepsRuleAndNeighborhoodMatched ==
  /\ [](currentRule \in Rules /\
        currentNeighborhoodType =
          (IF currentRule = RULE110 THEN ELEMENTARY ELSE MOORE))
  /\ [][(op' = "switchNeighborhoodType" /\ consoleLevel' = "log")
        => currentRule' = FirstRegisteredRule(currentNeighborhoodType')]_vars
  /\ [][(op' = "switchRule" /\ consoleLevel' = "error")
        => currentRule' = currentRule]_vars
  /\ [][op' = "submitDimensions"
        => /\ currentRule' = currentRule
           /\ currentNeighborhoodType' = currentNeighborhoodType]_vars

\* Under the elementary neighbourhood switchRule was called with a key that
\* is not registered for it, and Rule 110 is still the rule.
C24_Witness ==
  /\ op = "switchRule"
  /\ consoleLevel = "error"
  /\ currentNeighborhoodType = ELEMENTARY
  /\ currentRule = RULE110

\* C25: cell states stay inside the state set of the active rule. From a grid
\* of states of the active rule, after any sequence of steps, paints with a
\* state of the active rule, setNeighborhoodType and setRule calls, the state
\* of every cell is one of the available states of the rule that is active.
C25_StatesStayInActiveRuleSet ==
  \A i \in DOMAIN cells :
    cells[i] \in (IF currentRule = RULE110 THEN {0, 1} ELSE {0 - 1, 0, 1, 2})

\* C26: the play/pause scheduling invariant. After any sequence of
\* toggleTickLoop and setTickRate calls with rates in 0 .. 255 an interval is
\* scheduled exactly when the simulation is not stopped: isRunning() is true
\* if and only if tickLoopIntervalId is not null, and at most one interval
\* is live.
C26_IntervalExactlyWhenRunning ==
  /\ (~STOP) <=> (tickLoopIntervalId # "null")
  /\ Cardinality(intervals) <= 1

\* C26, amended: tickLoopIntervalId names the one live interval or is null
\* when none is live; an interval is live only while the simulation is not
\* stopped; and the simulation is not stopped without a live interval only
\* when it was started at tick rate 0, which schedules nothing.
C26_IntervalOnlyWhenRunning ==
  /\ intervals = (IF tickLoopIntervalId = "null" THEN {} ELSE {tickLoopIntervalId})
  /\ tickLoopIntervalId # "null" => ~STOP
  /\ (~STOP /\ tickLoopIntervalId = "null") => TICKRATE = 0

\* The rate was set to 0 while stopped and the loop was started: running,
\* and no interval.
C26_Witness ==
  /\ op = "toggleTickLoop"
  /\ ~STOP
  /\ TICKRATE = 0
  /\ tickLoopIntervalId = "null"
  /\ intervals = {}

\* C27: the render loop drains the dirty set. Running or stopped, a frame
\* that finds the dirty set non-empty redraws the grid and clears the set,
\* and a frame that finds it empty leaves it as it is; with animation frames
\* that keep firing, every index a step or a paint marked dirty is eventually
\* redrawn and out of the dirty set.
C27_RenderLoopDrainsDirtySet ==
  /\ [][(op' = "renderFrame" /\ pc = "idle" /\ pc' = "idle" /\ cells' = cells
          /\ STOP' = STOP)
        => /\ dirtyRects # {} => (dirtyRects' = {} /\ clearedCells' = cells)
           /\ dirtyRects = {} => UNCHANGED <<dirtyRects, clearedCells>>]_vars
  /\ \A i \in 0 .. MaxLoopCells - 1 :
       (i \in dirtyRects) ~> (i \notin dirtyRects /\ clearedCells # <<>>)

\* A frame has redrawn the grid as it is and cleared the dirty set while the
\* simulation is running.
C27_Witness ==
  /\ op = "renderFrame"
  /\ ~STOP
  /\ dirtyRects = {}
  /\ clearedCells = cells

\* The position (row, col) lies in a grid of dims = [width, height].
InGrid(dims, row, col) ==
  row >= 0 /\ row < dims[1] /\ col >= 0 /\ col < dims[0]

\* The nine cells returned for the cell at (row, col) are the claimed ones:
\* entry k is the grid cell at the position offset k names when that position
\* is in the grid, and some cell of the grid when it is not.
IsThreesquareOf(neighborhood, row, col) ==
  /\ DOMAIN neighborhood = 0 .. 8
  /\ \A k \in 0 .. 8 :
       LET r == row + (k \div 3) - 1
           c == col + (k % 3) - 1
       IN /\ neighborhood[k] \in DOMAIN cells
          /\ InGrid(dimensionOrders, r, c)
               => neighborhood[k] = getIndex(dimensionOrders, Vec2(r, c))

\* C28: threesquareNeighborhood, and getNeighborhood(index), return for every
\* grid with both sizes >= 1, square or not, and every valid position
\* (row, col) nine defined cells in the order up-left, up, up-right, left,
\* self, right, down-left, down, down-right: the grid cell at (row+dr, col+dc)
\* for an offset that stays inside the grid and a substitute cell for one
\* that leaves it, never undefined and never a cell of another row or column
\* than the offset names.
C28_ThreesquareReturnsTheNineNeighbors ==
  /\ op = "threesquareNeighborhood"
       => IsThreesquareOf(ret, position[0], position[1])
  /\ op = "getNeighborhood"
       => IsThreesquareOf(ret, index \div dimensionOrders[0],
                               index % dimensionOrders[0])

\* C29: elementaryNeighborhood returns for every valid position (row, col) of
\* a width x height grid the cells [left, self, right] of the same row: entry
\* k is the grid cell at column col-1+k whenever that column lies in
\* [0, width), and only a column outside [0, width) is replaced by a boundary
\* substitute.
C29_ElementaryReturnsLeftSelfRight ==
  op = "elementaryNeighborhood"
    => /\ DOMAIN ret = 0 .. 2
       /\ \A k \in 0 .. 2 :
            LET c == position[1] - 1 + k
            IN /\ ret[k] \in DOMAIN cells
               /\ InGrid(dimensionOrders, position[0], c)
                    => ret[k] = getIndex(dimensionOrders, Vec2(position[0], c))

\* The number of cells of a grid that hold sand, loose or compacted.
SandCount(grid) ==
  Cardinality({i \in DOMAIN grid : grid[i] \in {SAND, COMPACTED_SAND}})

\* The indices of a grid that hold rock.
RockIndices(grid) == {i \in DOMAIN grid : grid[i] = ROCK}

C30_StepKeepsRock ==
  [][op' = "iterate" => RockIndices(cells') = RockIndices(cells)]_vars

====
